---- MODULE Spec2Model ----
(***************************************************************************)
(* A model of the core of the rardecode RAR reader: volume-name successor  *)
(* functions, the v3 bit reader, the sliding window, the decode reader's   *)
(* filter queue, the packed-file reader, the checksum reader and the       *)
(* seekable cipher reader.  Each component has its own specification       *)
(* (SpecNames, SpecBits, ...) over the shared variable tuple; a component   *)
(* specification leaves the other components' variables at their initial   *)
(* values.                                                                 *)
(***************************************************************************)
EXTENDS Integers, Sequences, FiniteSets, TLC

VARIABLES
    \* volume names
    name,       \* current volume file name, a sequence of byte values
    name0,      \* the name the successor function was first applied to
    napplied,   \* number of applications so far
    scheme,     \* "new" | "old" | "none"
    seen,       \* names produced before the current one
    \* v3 bit reader
    brB,        \* rarBitReader.b : bytes not yet consumed
    brV,        \* rarBitReader.v : bit cache, a sequence of IntSize bits
    brN,        \* rarBitReader.n : number of unread bits in v
    brSkip,     \* bits of the stream that precede the encoded integer
    brX,        \* the value that was encoded into the input
    brForm,     \* the form it was encoded in
    brPc,       \* "idle" | "start" | "ready" | "done"
    brOut,      \* result of readUint32 as 32 bits
    brErr,      \* error of readUint32 ("nil" | "EOF")
    \* sliding window
    win,        \* the window struct: buflen, size, mask, r, w, l, o
    winLast,    \* the last window operation that returned
    winOps,     \* number of window operations so far
    \* decode reader (its window is win)
    dr,         \* the decodeReader struct: filters, buf, cap, out, winbuf, tot, err
    drPc,       \* "idle", or "fill" while readBytes waits for the decoder's fill
    drN,        \* the argument n of the readBytes call in progress
    drRet,      \* what the last readBytes call returned: [n, err]
    drFills,    \* number of decoder fills so far
    \* packed file reader over a volume
    pk,         \* packedFileReader and its volume: h, hid, rem, cur, num, end
    pkPc,       \* "idle", or where the call in progress waits for v.nextBlock()
    pkCall,     \* the Read call in progress: [p, n]
    pkRet,      \* what the last call returned: [op, n, err]
    pkG,        \* bookkeeping for the current file: blocks, delivered, ...
    \* checksum reader over an inner archiveFile
    ck,         \* checksumReader and what it wraps: hash, hs, idx, cut, data, pos
    ckRet,      \* what the last call returned: [op, n, err]
    ckOut,      \* the bytes delivered to the caller so far
    \* seekable cipher reader over the packed bytes of a file
    ci,         \* cipherBlockReader: block, inl, out, iv, off; upos of what it reads
    ciRet,      \* what the last call returned: [op, n, err]
    ciG,        \* bookkeeping: seeked, err, ok, pos
    \* volume: the block reader over the volume files of an archive
    vl,         \* volume: num, ver, arc, cl, vm, src
    vlPc,       \* "new", "idle", "open", "parse", "dead" or "closed"
    vlCall,     \* the nextBlock call in progress: start, mark, opened, tries
    vlRet,      \* what the last call returned
    vlG,        \* bookkeeping: open, peak, tries, blocks, err
    \* volume manager shared by the File handles of one listing
    vm,         \* volumeManager: files, old, mu (0 or the handle holding it)
    vmPc,       \* per handle: where its openVolumeFile call stands
    vmVol,      \* per handle: the volnum argument of its call
    \* Reader over the files of a solid archive
    sd,         \* Reader, its decoder and the archive it reads
    sdRet,      \* what the last call returned: [op, n, err]
    sdG,        \* bookkeeping: bytes returned for the current file, drained
    \* length-limited reader over an inner archiveFile
    lm,
    lmRet,
    \* filter queue of a decodeReader, for queueFilter alone
    qf,
    qfRet,
    \* the window with its contents
    cb,
    \* the bit reader with a bit limit and what its last call returned
    lb,
    lbRet

nameVars == <<name, name0, napplied, scheme, seen>>
bitVars  == <<brB, brV, brN, brSkip, brX, brForm, brPc, brOut, brErr>>
winVars  == <<win, winLast, winOps>>
drVars   == <<dr, drPc, drN, drRet, drFills>>
pkVars   == <<pk, pkPc, pkCall, pkRet, pkG>>
ckVars   == <<ck, ckRet, ckOut>>
ciVars   == <<ci, ciRet, ciG>>
vlVars   == <<vl, vlPc, vlCall, vlRet, vlG>>
vmVars   == <<vm, vmPc, vmVol>>
sdVars   == <<sd, sdRet, sdG>>
lmVars   == <<lm, lmRet>>
qfVars   == <<qf, qfRet>>
cbVars   == <<cb>>
lbVars   == <<lb, lbRet>>
vars == <<nameVars, bitVars, winVars, drVars, pkVars, ckVars, ciVars, vlVars, vmVars, sdVars, lmVars, qfVars, cbVars, lbVars>>

\* what an action of one component leaves alone
notNameVars == <<bitVars, winVars, drVars, pkVars, ckVars, ciVars, vlVars, vmVars, sdVars, lmVars, qfVars, cbVars, lbVars>>
notBitVars  == <<nameVars, winVars, drVars, pkVars, ckVars, ciVars, vlVars, vmVars, sdVars, lmVars, qfVars, cbVars, lbVars>>
notWinVars  == <<nameVars, bitVars, drVars, pkVars, ckVars, ciVars, vlVars, vmVars, sdVars, lmVars, qfVars, cbVars, lbVars>>
notDrVars   == <<nameVars, bitVars, winLast, winOps, pkVars, ckVars, ciVars, vlVars, vmVars, sdVars, lmVars, qfVars, cbVars, lbVars>>
notPkVars   == <<nameVars, bitVars, winVars, drVars, ckVars, ciVars, vlVars, vmVars, sdVars, lmVars, qfVars, cbVars, lbVars>>
notCkVars   == <<nameVars, bitVars, winVars, drVars, pkVars, ciVars, vlVars, vmVars, sdVars, lmVars, qfVars, cbVars, lbVars>>
notVlVars   == <<nameVars, bitVars, winVars, drVars, pkVars, ckVars, ciVars, vmVars, sdVars, lmVars, qfVars, cbVars, lbVars>>
notVmVars   == <<nameVars, bitVars, winVars, drVars, pkVars, ckVars, ciVars, vlVars, sdVars, lmVars, qfVars, cbVars, lbVars>>
notSdVars   == <<nameVars, bitVars, winVars, drVars, pkVars, ckVars, ciVars, vlVars, vmVars, lmVars, qfVars, cbVars, lbVars>>
notCiVars   == <<nameVars, bitVars, winVars, drVars, pkVars, ckVars, vlVars, vmVars, sdVars, lmVars, qfVars, cbVars, lbVars>>
notLmVars   == <<nameVars, bitVars, winVars, drVars, pkVars, ckVars, ciVars, vlVars, vmVars, sdVars, qfVars, cbVars, lbVars>>
notQfVars   == <<nameVars, bitVars, winVars, drVars, pkVars, ckVars, ciVars, vlVars, vmVars, sdVars, lmVars, cbVars, lbVars>>
notCbVars   == <<nameVars, bitVars, winVars, drVars, pkVars, ckVars, ciVars, vlVars, vmVars, sdVars, lmVars, qfVars, lbVars>>
notLbVars   == <<nameVars, bitVars, winVars, drVars, pkVars, ckVars, ciVars, vlVars, vmVars, sdVars, lmVars, qfVars, cbVars>>

----------------------------------------------------------------------------
(* General helpers *)

Min(a, b) == IF a < b THEN a ELSE b
Max(a, b) == IF a > b THEN a ELSE b

\* Go's s[lo:hi] on a 0-indexed slice
Slice(s, lo, hi) == SubSeq(s, lo + 1, hi)

RECURSIVE Pow2(_)
Pow2(n) == IF n = 0 THEN 1 ELSE 2 * Pow2(n - 1)

RECURSIVE SeqsUpTo(_, _)
\* all sequences over S of length 0..n
SeqsUpTo(S, n) ==
    IF n = 0 THEN {<<>>}
    ELSE LET shorter == SeqsUpTo(S, n - 1)
         IN  shorter \cup {Append(s, c) : s \in {t \in shorter : Len(t) = n - 1}, c \in S}

----------------------------------------------------------------------------
(* Volume names: src/volume.go nextNewVolName, nextOldVolName *)

\* byte values of the characters the code tests for
ChDot   == 46
Ch0     == 48
Ch9     == 57
ChUpA   == 65
ByteMod == 256

MaxNameLen  == 5      \* longest first name tried for the new scheme
MaxNewApply == 3      \* applications of nextNewVolName
MaxOldApply == 210    \* applications of nextOldVolName

IsDigit(c) == c >= Ch0 /\ c <= Ch9

hasDigits(s) == \E i \in 1..Len(s) : IsDigit(s[i])

Contains(s, c) == \E i \in 1..Len(s) : s[i] = c

\* strings.LastIndex(file, "."), 0-indexed, -1 when absent
LastIndexDot(s) ==
    IF Contains(s, ChDot)
    THEN (CHOOSE i \in 1..Len(s) : s[i] = ChDot /\ \A j \in (i+1)..Len(s) : s[j] # ChDot) - 1
    ELSE -1

RECURSIVE DigitRunBounds(_, _, _, _)
\* the list m built by the scanning loop: start and end index of every digit run
DigitRunBounds(file, i, inDigit, m) ==
    IF i >= Len(file)
    THEN IF inDigit THEN Append(m, Len(file)) ELSE m
    ELSE LET c == file[i + 1]
         IN  IF IsDigit(c)
             THEN IF ~inDigit
                  THEN DigitRunBounds(file, i + 1, TRUE, Append(m, i))
                  ELSE DigitRunBounds(file, i + 1, TRUE, m)
             ELSE IF inDigit
                  THEN DigitRunBounds(file, i + 1, FALSE, Append(m, i))
                  ELSE DigitRunBounds(file, i + 1, FALSE, m)

RECURSIVE Atoi(_)
\* strconv.Atoi on a string of decimal digits (runs here are too short to overflow)
Atoi(s) == IF Len(s) = 0 THEN 0
           ELSE 10 * Atoi(SubSeq(s, 1, Len(s) - 1)) + (s[Len(s)] - Ch0)

RECURSIVE Itoa(_)
\* decimal digits of n >= 0, no padding
Itoa(n) == IF n < 10 THEN <<Ch0 + n>>
           ELSE Append(Itoa(n \div 10), Ch0 + (n % 10))

RECURSIVE ZeroPad(_, _)
ZeroPad(s, w) == IF Len(s) >= w THEN s ELSE ZeroPad(<<Ch0>> \o s, w)

\* fmt.Sprintf("%0<w>d", n)
SprintfPad(w, n) == ZeroPad(Itoa(n), w)

\* mutant: the volume number is printed without zero padding
NextNewNoPad(file) ==
    LET m  == DigitRunBounds(file, 0, FALSE, <<>>)
        l  == Len(m)
        lo == m[l - 1]
        hi == m[l]
    IN  Slice(file, 0, lo) \o Itoa(Atoi(Slice(file, lo, hi)) + 1) \o Slice(file, hi, Len(file))

nextNewVolName(file) ==
    LET m0 == DigitRunBounds(file, 0, FALSE, <<>>)
        l  == Len(m0)
        m4 == IF l >= 4 THEN SubSeq(m0, l - 3, l) ELSE m0
        m  == IF l >= 4
                 /\ (\/ Contains(Slice(file, m4[2], m4[3]), ChDot)
                     \/ ~Contains(Slice(file, 0, m4[1]), ChDot))
              THEN SubSeq(m4, 3, 4)
              ELSE m4
        lo == m[1]
        hi == m[2]
        n  == Atoi(Slice(file, lo, hi)) + 1
        vol == SprintfPad(hi - lo, n)
    IN  Slice(file, 0, lo) \o vol \o Slice(file, hi, Len(file))

RECURSIVE IncExt(_, _)
\* the loop "for j := 2; j >= 0; j--" over the extension bytes b (j is 0-indexed)
IncExt(b, j) ==
    IF j < 0 THEN b
    ELSE IF b[j + 1] # Ch9
         THEN [b EXCEPT ![j + 1] = (b[j + 1] + 1) % ByteMod]
         ELSE IF j = 0
              THEN IncExt([b EXCEPT ![j + 1] = ChUpA], j - 1)
              ELSE IncExt([b EXCEPT ![j + 1] = Ch0], j - 1)

\* mutant: a digit that overflows is set to '0' but the carry is dropped
NextOldNoCarry(file) ==
    LET i == LastIndexDot(file)
        b == Slice(file, i + 1, Len(file))
    IN  IF Len(b) < 3 \/ ~IsDigit(b[2]) \/ ~IsDigit(b[3])
        THEN Slice(file, 0, i + 2) \o <<Ch0, Ch0>>
        ELSE Slice(file, 0, i + 1) \o
             (IF b[3] # Ch9 THEN [b EXCEPT ![3] = b[3] + 1] ELSE [b EXCEPT ![3] = Ch0])

nextOldVolName(file) ==
    LET i == LastIndexDot(file)
        b == Slice(file, i + 1, Len(file))
    IN  IF Len(b) < 3 \/ b[2] < Ch0 \/ b[2] > Ch9 \/ b[3] < Ch0 \/ b[3] > Ch9
        THEN Slice(file, 0, i + 2) \o <<Ch0, Ch0>>
        ELSE Slice(file, 0, i + 1) \o IncExt(b, 2)

\* first names for the new scheme: every short name that has a digit
NameChars == {Ch0, Ch0 + 1, Ch9, ChDot, 97}
NewNames == {s \in SeqsUpTo(NameChars, MaxNameLen) : hasDigits(s)}

\* first names for the old scheme: <stem>.r00
OldStems == {<<>>, <<97>>, <<97, ChDot, 97>>, <<Ch0 + 1>>}
ExtR00 == <<114, Ch0, Ch0>>
OldNames == {s \o <<ChDot>> \o ExtR00 : s \in OldStems}

InitNamesIdle ==
    /\ name = <<>> /\ name0 = <<>> /\ napplied = 0 /\ scheme = "none" /\ seen = {}

InitNames ==
    /\ \/ scheme = "new" /\ name0 \in NewNames
       \/ scheme = "old" /\ name0 \in OldNames
    /\ name = name0
    /\ napplied = 0
    /\ seen = {}

ApplyNextNew ==
    /\ scheme = "new"
    /\ napplied < MaxNewApply
    /\ name' = nextNewVolName(name)
    /\ napplied' = napplied + 1
    /\ seen' = seen \cup {name}
    /\ UNCHANGED <<name0, scheme>>
    /\ UNCHANGED notNameVars

ApplyNextOld ==
    /\ scheme = "old"
    /\ napplied < MaxOldApply
    /\ name' = nextOldVolName(name)
    /\ napplied' = napplied + 1
    /\ seen' = seen \cup {name}
    /\ UNCHANGED <<name0, scheme>>
    /\ UNCHANGED notNameVars

----------------------------------------------------------------------------
(* Bit reader: src/unnamed/part_000 rarBitReader *)

IntSize == 64         \* number of bits in an int

MaxSmallX == 300      \* every x up to this value is encoded and decoded
BigX == {4660, 32767, 32768, 65280, 65535}
XValues == 0..MaxSmallX \cup BigX

Zeros(n) == [i \in 1..n |-> 0]

\* the low w bits of n, most significant first
NatBits(n, w) == [i \in 1..w |-> (n \div Pow2(w - i)) % 2]

RECURSIVE BitsNat(_)
BitsNat(bs) == IF Len(bs) = 0 THEN 0
               ELSE 2 * BitsNat(SubSeq(bs, 1, Len(bs) - 1)) + bs[Len(bs)]

\* a bit string widened to 32 bits, as uint32(n) of a non-negative n
U32(bs) == Zeros(32 - Len(bs)) \o bs

RECURSIVE BitsBytes(_)
\* pack a bit string (length a multiple of 8) into bytes
BitsBytes(bs) == IF Len(bs) = 0 THEN <<>>
                 ELSE <<BitsNat(SubSeq(bs, 1, 8))>> \o BitsBytes(SubSeq(bs, 9, Len(bs)))

PadToByte(bs) == bs \o Zeros((8 - (Len(bs) % 8)) % 8)

\* r.v<<8 | int(c) on an IntSize-bit cache
ShiftIn(v, c) == SubSeq(v \o NatBits(c, 8), 9, IntSize + 8)

\* (r.v >> n0) & ((1 << n) - 1)
CacheBits(v, n0, n) == SubSeq(v, IntSize - n0 - n + 1, IntSize - n0)

RECURSIVE readBitsFill(_, _)
\* the loop "for n > r.n" of readBits: ReadByte, shift into the cache
readBitsFill(st, n) ==
    IF n > st.n
    THEN IF Len(st.b) = 0
         THEN [st |-> st, err |-> "EOF"]
         ELSE readBitsFill([b |-> Tail(st.b), v |-> ShiftIn(st.v, Head(st.b)), n |-> st.n + 8], n)
    ELSE [st |-> st, err |-> "nil"]

\* readBits(n): the reader after the call, the n bits read, the error
readBits(st, n) ==
    LET f == readBitsFill(st, n)
    IN  IF f.err # "nil"
        THEN [st |-> f.st, val |-> <<>>, err |-> f.err]
        ELSE [st |-> [f.st EXCEPT !.n = f.st.n - n],
              val |-> CacheBits(f.st.v, f.st.n - n, n), err |-> "nil"]

\* mutant: the width after a prefix other than 01 is 4 << (n-1) for n > 0,
\* i.e. 8 bits after 10 and 16 bits after 11
WidthNarrow(n) == IF n = 0 THEN 4 ELSE 4 * Pow2(n - 1)

\* 4 << uint(n)
WidthAfterPrefix(n) == 4 * Pow2(n)

\* readUint32: the reader after the call, the uint32 returned (32 bits), the error
readUint32(st) ==
    LET r1 == readBits(st, 2)
    IN  IF r1.err # "nil" THEN [st |-> r1.st, val |-> Zeros(32), err |-> r1.err]
        ELSE LET n == BitsNat(r1.val)
             IN  IF n # 1
                 THEN LET r2 == readBits(r1.st, WidthAfterPrefix(n))
                      IN  [st |-> r2.st, val |-> U32(r2.val), err |-> r2.err]
                 ELSE LET r3 == readBits(r1.st, 4)
                      IN  IF r3.err # "nil" THEN [st |-> r3.st, val |-> Zeros(32), err |-> r3.err]
                          ELSE IF BitsNat(r3.val) = 0
                               THEN LET r4 == readBits(r3.st, 8)
                                    IN  [st |-> r4.st,
                                         val |-> [i \in 1..24 |-> 1] \o
                                                 (IF r4.err = "nil" THEN r4.val ELSE Zeros(8)),
                                         err |-> r4.err]
                               ELSE LET r5 == readBits(r3.st, 4)
                                    IN  [st |-> r5.st,
                                         val |-> U32(r3.val \o
                                                 (IF r5.err = "nil" THEN r5.val ELSE Zeros(4))),
                                         err |-> r5.err]

\* The encodings of x.  Forms "p00", "p01", "p10w16", "p11w32" are the ones the
\* decoder's widths accept; "p10w8" and "p11w16" are the rows 10 and 11 of the
\* table in the specification.
Forms == {"p00", "p01", "p10w16", "p11w32", "p10w8", "p11w16"}

FormFits(f, x) ==
    CASE f = "p00"    -> x < 16
      [] f = "p01"    -> x >= 16 /\ x < 256
      [] f = "p10w8"  -> x < 256
      [] OTHER        -> x < 65536

Encode(f, x) ==
    CASE f = "p00"    -> <<0, 0>> \o NatBits(x, 4)
      [] f = "p01"    -> <<0, 1>> \o NatBits(x, 8)
      [] f = "p10w16" -> <<1, 0>> \o NatBits(x, 16)
      [] f = "p11w32" -> <<1, 1>> \o Zeros(16) \o NatBits(x, 16)
      [] f = "p10w8"  -> <<1, 0>> \o NatBits(x, 8)
      [] f = "p11w16" -> <<1, 1>> \o NatBits(x, 16)

SkipBits == {0, 3, 7}       \* bits of the stream consumed before the integer
TrailBytes == {0, 1, 4}     \* bytes of the stream after the integer

InitBitsIdle ==
    /\ brB = <<>> /\ brV = <<>> /\ brN = 0 /\ brSkip = 0 /\ brX = 0
    /\ brForm = "none" /\ brPc = "idle" /\ brOut = <<>> /\ brErr = "nil"

InitBits ==
    /\ brX \in XValues
    /\ brForm \in {f \in Forms : FormFits(f, brX)}
    /\ \E k \in SkipBits, t \in TrailBytes :
          /\ brB = BitsBytes(PadToByte([i \in 1..k |-> 1] \o Encode(brForm, brX)))
                   \o [i \in 1..t |-> 165]
          /\ brSkip = k
    /\ brN = 0
    /\ brV = Zeros(IntSize)
    /\ brPc = "start"
    /\ brOut = <<>>
    /\ brErr = "nil"

\* newRarBitReader, then readBits of the bits that precede the integer
BitsSkip ==
    /\ brPc = "start"
    /\ LET r == readBits([b |-> brB, v |-> brV, n |-> brN], brSkip)
       IN  /\ brB' = r.st.b /\ brV' = r.st.v /\ brN' = r.st.n
           /\ brErr' = r.err
    /\ brPc' = "ready"
    /\ UNCHANGED <<brSkip, brX, brForm, brOut>>
    /\ UNCHANGED notBitVars

BitsReadUint32 ==
    /\ brPc = "ready"
    /\ LET r == readUint32([b |-> brB, v |-> brV, n |-> brN])
       IN  /\ brB' = r.st.b /\ brV' = r.st.v /\ brN' = r.st.n
           /\ brOut' = r.val /\ brErr' = r.err
    /\ brPc' = "done"
    /\ UNCHANGED <<brSkip, brX, brForm>>
    /\ UNCHANGED notBitVars

----------------------------------------------------------------------------
(* Window: src/decode_reader.go window *)

minWindowSize == 262144     \* 0x40000

MaxWinOps == 5              \* window operations in one behaviour

Log2Sizes == {0, 18, 19}    \* log2size arguments of reset
CopyLens  == {1, 5, 262143, 262147}
CopyOffs  == {1, 3, 262144}

\* the zero value of the struct
WindowZero == [buflen |-> 0, size |-> 0, mask |-> 0, r |-> 0, w |-> 0, l |-> 0, o |-> 0]

\* x & mask for a mask of the form 2^k - 1 (two's complement for negative x)
AndMask(x, mask) == x % (mask + 1)

buffered(w) == w.w - w.r

available(w) == w.size - w.w

\* mutant: the requested size is not raised to minWindowSize
ResetNoMin(w, log2size, clear) ==
    LET size == Pow2(log2size)
        w1 == IF size > w.buflen
              THEN [w EXCEPT !.w = IF clear THEN 0 ELSE IF w.buflen > 0 THEN w.buflen ELSE w.w,
                             !.buflen = size, !.size = size, !.mask = size - 1]
              ELSE IF clear THEN [w EXCEPT !.w = 0] ELSE w
    IN  [w1 EXCEPT !.r = w1.w]

reset(w, log2size, clear) ==
    LET size0 == Pow2(log2size)
        size  == IF size0 < minWindowSize THEN minWindowSize ELSE size0
        w1 == IF size > w.buflen
              THEN \* copy(b, buf[w:]) + copy(b[n:], buf[:w]) moves all buflen bytes
                   [w EXCEPT !.w = IF clear THEN 0
                                   ELSE IF w.buflen > 0
                                        THEN Min(size, w.buflen - w.w)
                                             + Min(size - Min(size, w.buflen - w.w), w.w)
                                        ELSE w.w,
                             !.buflen = size, !.size = size, !.mask = size - 1]
              ELSE IF clear THEN [w EXCEPT !.w = 0] ELSE w
    IN  [w1 EXCEPT !.r = w1.w]

writeByte(w) == [w EXCEPT !.w = w.w + 1]

\* mutant: the segment is copied whole, whatever room is left
CopySegAll(w, i, iend) ==
    [w EXCEPT !.w = w.w + (iend - i), !.l = w.l - (iend - i)]

\* n := copy(w.buf[w.w:], w.buf[i:iend]); w.w += n; w.l -= n
CopySeg(w, i, iend) ==
    LET n == Min(w.size - w.w, iend - i)
    IN  [w EXCEPT !.w = w.w + n, !.l = w.l - n]

\* the bytewise loop "for w.l > 0 && w.w < w.size" of copyBytes
CopyLoop(w) ==
    LET k == Min(w.l, w.size - w.w)
    IN  IF w.l > 0 /\ w.w < w.size THEN [w EXCEPT !.w = w.w + k, !.l = w.l - k] ELSE w

\* copyBytes from "if iend <= w.w" on
CopyTail(w, i, iend) ==
    IF iend <= w.w THEN CopySeg(w, i, iend) ELSE CopyLoop(w)

\* copyBytes after the first segment: "if w.l == 0 { return }; iend = w.l; i = 0"
CopyAfterFirst(w) ==
    IF w.l = 0 THEN w ELSE CopyTail(w, 0, w.l)

\* copyBytes once w.l and w.o are set
CopyFrom(w, i, iend) ==
    IF i > w.w
    THEN \* first segment: the source lies after the write index
         CopyAfterFirst(CopySeg(w, i, IF iend > w.size THEN w.size ELSE iend))
    ELSE CopyTail(w, i, iend)

copyBytes(w, length, offset) ==
    CopyFrom([w EXCEPT !.l = AndMask(length, w.mask), !.o = offset],
             AndMask(w.w - offset, w.mask),
             AndMask(w.w - offset, w.mask) + AndMask(length, w.mask))

\* mutant: after the write index wraps the read index keeps its old value
BytesNoReadWrap(w) ==
    LET w1 == IF w.l > 0 /\ w.w < w.size THEN copyBytes(w, w.l, w.o) ELSE w
    IN  [win |-> IF w1.w = w1.size THEN [w1 EXCEPT !.w = 0] ELSE [w1 EXCEPT !.r = w1.w],
         n   |-> w1.w - w1.r]

\* bytes() after the pending copy has been resumed
BytesSlice(w) ==
    [win |-> [w EXCEPT !.w = IF w.w = w.size THEN 0 ELSE w.w,
                       !.r = IF w.w = w.size THEN 0 ELSE w.w],
     n   |-> w.w - w.r]

\* bytes(): the window after the call and the length of the slice returned
bytes(w) ==
    BytesSlice(IF w.l > 0 /\ w.w < w.size THEN copyBytes(w, w.l, w.o) ELSE w)

InitWinIdle == win = WindowZero /\ winLast = "new" /\ winOps = 0

InitWin == InitWinIdle

WinReset ==
    /\ winOps < MaxWinOps
    /\ \E log2size \in Log2Sizes, clear \in BOOLEAN :
          win' = reset(win, log2size, clear)
    /\ winLast' = "reset"
    /\ winOps' = winOps + 1
    /\ UNCHANGED notWinVars

\* a decoder writes a byte only while available() > 0
WinWriteByte ==
    /\ winOps < MaxWinOps
    /\ available(win) > 0
    /\ win' = writeByte(win)
    /\ winLast' = "writeByte"
    /\ winOps' = winOps + 1
    /\ UNCHANGED notWinVars

WinCopyBytes ==
    /\ winOps < MaxWinOps
    /\ win.size > 0
    /\ \E length \in CopyLens, offset \in CopyOffs :
          win' = copyBytes(win, length, offset)
    /\ winLast' = "copyBytes"
    /\ winOps' = winOps + 1
    /\ UNCHANGED notWinVars

WinBytes ==
    /\ winOps < MaxWinOps
    /\ win.size > 0
    /\ win' = bytes(win).win
    /\ winLast' = "bytes"
    /\ winOps' = winOps + 1
    /\ UNCHANGED notWinVars

----------------------------------------------------------------------------
(* Decode reader: src/decode_reader.go decodeReader *)

maxQueuedFilters == 8192

MaxFills       == 1          \* decoder fills that produce data in one behaviour
MaxFiltPerFill == 2          \* filters one fill returns
FillWrites  == {3, 6}        \* bytes a fill writes to the window
FilterOffs  == {0, 2}        \* filter offsets a fill supplies
FilterLens  == {2, 4}        \* filter lengths a fill supplies
ReadSizes   == {1, 3, 8}     \* arguments of readBytes
StartGaps   == {0, 4}        \* window bytes left before the wrap when decoding starts

\* Buffers are modelled by their lengths.  A queued filter carries, besides the
\* code's offset and length, what the decoder supplied: id (insertion number),
\* abs (the output offset it was asked for: tot at the fill plus the supplied
\* offset) and len0 (the supplied length).  fatal is the first error other than
\* io.EOF that readBytes returned, "nil" before; decoded counts the bytes the
\* decoder has written to the window; refused lists the filters processFilters
\* has refused to chain, as [id, flen, len, at] like fired; bufsrc and osrc
\* count the bytes taken off d.winbuf for what is in buf and for the buffer
\* last handed to processFilters; opre is len(d.outbuf) at the last entry to
\* processFilters; deliv adds up the lengths of the slices readBytes returned.
DecodeReaderZero ==
    [filters |-> <<>>, buf |-> 0, cap |-> 0, out |-> 0, winbuf |-> 0, tot |-> 0,
     err |-> "nil", nq |-> 0, fired |-> <<>>, fatal |-> "nil", decoded |-> 0,
     refused |-> <<>>, bufsrc |-> 0, osrc |-> 0, opre |-> 0, deliv |-> 0]

RECURSIVE RelRange(_, _, _, _)
\* the loop of queueFilter over filters[lo..hi] with f.offset = off on entry:
\* the offset left after the loop, or -1 once the loop has returned
\* errInvalidFilter.  The range is walked in order, first half then second.
RelRange(filters, lo, hi, off) ==
    IF off < 0 \/ lo > hi THEN off
    ELSE IF lo = hi
    THEN IF off < filters[lo].offset THEN -1 ELSE off - filters[lo].offset
    ELSE CHOOSE r \in {RelRange(filters, (lo + hi) \div 2 + 1, hi, o) :
                          o \in {RelRange(filters, lo, (lo + hi) \div 2, off)}} : TRUE

\* f.offset after the loop of queueFilter from filters[i] on, -1 for errInvalidFilter
RelOffset(filters, i, off) == RelRange(filters, i, Len(filters), off)

\* queueFilter without the test of the queue length
QueueFilterNoCap(d, w, f) ==
    IF RelOffset(d.filters, 1, AndMask(f.offset, w.mask)) < 0
    THEN [d |-> d, err |-> "errInvalidFilter"]
    ELSE [d |-> [d EXCEPT !.filters = Append(@, [offset |-> RelOffset(d.filters, 1, AndMask(f.offset, w.mask)),
                                                  length |-> AndMask(f.length, w.mask),
                                                  id |-> d.nq + 1, abs |-> d.tot + f.offset,
                                                  len0 |-> f.length]),
                          !.nq = @ + 1],
          err |-> "nil"]

\* queueFilter that compares the offset with the first queued filter only
QueueFilterHeadOnly(d, w, f) ==
    IF Len(d.filters) >= maxQueuedFilters
    THEN [d |-> d, err |-> "errTooManyFilters"]
    ELSE IF Len(d.filters) > 0 /\ AndMask(f.offset, w.mask) < d.filters[1].offset
    THEN [d |-> d, err |-> "errInvalidFilter"]
    ELSE [d |-> [d EXCEPT !.filters = Append(@, [offset |-> AndMask(f.offset, w.mask),
                                                  length |-> AndMask(f.length, w.mask),
                                                  id |-> d.nq + 1, abs |-> d.tot + f.offset,
                                                  len0 |-> f.length]),
                          !.nq = @ + 1],
          err |-> "nil"]

\* queueFilter(f): the reader after the call and the error
queueFilter(d, w, f) ==
    IF Len(d.filters) >= maxQueuedFilters
    THEN [d |-> d, err |-> "errTooManyFilters"]
    ELSE LET off == AndMask(f.offset, w.mask)
             len == AndMask(f.length, w.mask)
             rel == RelOffset(d.filters, 1, off)
         IN  IF rel < 0
             THEN [d |-> d, err |-> "errInvalidFilter"]
             ELSE [d |-> [d EXCEPT !.filters = Append(@, [offset |-> rel, length |-> len,
                                                           id |-> d.nq + 1,
                                                           abs |-> d.tot + f.offset,
                                                           len0 |-> f.length]),
                                   !.nq = @ + 1],
                   err |-> "nil"]

RECURSIVE QueueAll(_, _, _, _)
\* the loop of fill over the filters the decoder returned, from fl[i] on; q is
\* the outcome of the previous queueFilter
QueueAll(q, w, fl, i) ==
    IF q.err # "nil" THEN [q.d EXCEPT !.err = q.err]
    ELSE IF i > Len(fl) THEN q.d
    ELSE QueueAll(queueFilter(q.d, w, fl[i]), w, fl, i + 1)

RECURSIVE WriteBytes(_, _)
WriteBytes(w, k) == IF k = 0 THEN w ELSE WriteBytes(writeByte(w), k - 1)

\* fill(): res is what the decoder does in this call: it writes res.write bytes
\* to the window (no more than available()), returns the filters res.fl and the
\* error res.err
fill(D, res) ==
    IF D.d.err # "nil" THEN D
    ELSE [win |-> WriteBytes(D.win, Min(res.write, available(D.win))),
          d   |-> QueueAll([d |-> [D.d EXCEPT !.err = res.err,
                                              !.decoded = @ + Min(res.write, available(D.win))],
                            err |-> "nil"],
                           D.win, res.fl, 1)]

\* one run of a filter over outbuf: recorded as [id, at, len, abs, len0, flen,
\* chained, src], flen being f.length, chained whether the filter ran over the
\* output of the filter before it, src the bytes taken off d.winbuf for the
\* buffer, pre and deliv the output not yet returned and the bytes returned by
\* readBytes when processFilters was entered
Fire(d, f, chained) ==
    [d EXCEPT !.fired = Append(@, [id |-> f.id, at |-> d.tot, len |-> d.out,
                                   abs |-> f.abs, len0 |-> f.len0,
                                   flen |-> f.length, chained |-> chained,
                                   src |-> d.osrc, pre |-> d.opre, deliv |-> d.deliv])]

\* mutant: the next filter is chained whatever its length
ChainAlways(g, d) == TRUE

\* the negation of "if f.length != len(d.outbuf)"
ChainOk(g, d) == g.length = d.out

RECURSIVE RunFilters(_, _, _, _)
\* the loop of processFilters: f is the filter to run, n the first filter's
\* length, chained whether a filter has run in this call
RunFilters(d, f, n, chained) ==
    LET d1 == Fire(d, f, chained)  \* d.outbuf, err = f.filter(d.outbuf, d.tot)
    IN  IF Len(d1.filters) = 0 THEN [d |-> d1, err |-> "nil"]
        ELSE LET g == d1.filters[1]
             IN  IF g.offset # 0
                 THEN [d |-> [d1 EXCEPT !.filters[1].offset = g.offset - n], err |-> "nil"]
                 ELSE IF ~ChainOk(g, d1)
                      THEN [d |-> [d1 EXCEPT !.refused = Append(@, [id |-> g.id, flen |-> g.length,
                                                                     len |-> d1.out, at |-> d1.tot])],
                            err |-> "errInvalidFilter"]
                      ELSE RunFilters([d1 EXCEPT !.filters = Tail(@)], g, n, TRUE)

processFilters(d) ==
    LET f == d.filters[1]
    IN  IF f.offset > 0 THEN [d |-> d, err |-> "nil"]
        ELSE RunFilters([d EXCEPT !.filters = Tail(@), !.out = d.buf, !.buf = 0,
                                  !.osrc = d.bufsrc, !.bufsrc = 0, !.opre = d.out],
                        f, f.length, FALSE)

\* readBytes after processFilters has returned p: st is "loop" when the loop of
\* readBytes goes on, or the error readBytes returns
Filtered(D, p) ==
    [D |-> [D EXCEPT !.d = p.d], st |-> IF p.err # "nil" THEN p.err ELSE "loop"]

\* the body of the loop of readBytes once d.winbuf is not empty
ProcessWinbuf(D) ==
    LET d == D.d
        l == d.winbuf
    IN  IF Len(d.filters) = 0
        THEN [D |-> [D EXCEPT !.d.out = l, !.d.winbuf = 0], st |-> "loop"]
        ELSE LET f == d.filters[1]
             IN  IF f.offset > 0
                 THEN LET m == Min(f.offset, l)
                      IN  [D |-> [D EXCEPT !.d.out = m, !.d.winbuf = l - m,
                                           !.d.filters[1].offset = f.offset - m],
                           st |-> "loop"]
                 ELSE LET d1 == IF d.cap < f.length
                                THEN [d EXCEPT !.buf = 0, !.cap = f.length, !.bufsrc = 0]
                                ELSE d
                          nn == f.length - d1.buf
                      IN  IF l >= nn
                          THEN Filtered(D, processFilters([d1 EXCEPT !.buf = @ + nn,
                                                                     !.winbuf = l - nn,
                                                                     !.bufsrc = @ + nn]))
                          ELSE \* d.buf = append(d.buf, d.winbuf...)
                               [D |-> [D EXCEPT !.d = [d1 EXCEPT !.buf = @ + l]],
                                st |-> "loop"]

\* the start of a loop iteration of readBytes when d.winbuf is empty: b is what
\* d.win.bytes() returned; "fill" when readBytes calls d.fill() next
NextSlice(D, b) ==
    IF b.n = 0
    THEN [D |-> [D EXCEPT !.win = b.win], st |-> "fill"]
    ELSE ProcessWinbuf([D EXCEPT !.win = b.win, !.d.winbuf = b.n])

RECURSIVE ReadLoop(_)
\* the loop "for len(d.outbuf) == 0" of readBytes from outcome p of the previous
\* iteration, up to a return ("deliver" or an error) or to the call of d.fill()
ReadLoop(p) ==
    IF p.st # "loop" THEN p
    ELSE IF p.D.d.out # 0 THEN [D |-> p.D, st |-> "deliver"]
    ELSE IF p.D.d.winbuf = 0 THEN ReadLoop(NextSlice(p.D, bytes(p.D.win)))
    ELSE ReadLoop(ProcessWinbuf(p.D))

\* readBytes after d.fill() has returned: b is what the second d.win.bytes() returned
FilledSlice(D, b) ==
    IF b.n = 0
    THEN [D |-> [D EXCEPT !.win = b.win, !.d.err = "nil"], st |-> D.d.err]   \* readErr()
    ELSE ReadLoop(ProcessWinbuf([D EXCEPT !.win = b.win, !.d.winbuf = b.n]))

AfterFill(D) == FilledSlice(D, bytes(D.win))

\* mutant: d.tot counts the bytes asked for
DeliverAsked(d, n) ==
    LET m == Min(d.out, n)
    IN  [d EXCEPT !.out = d.out - m, !.tot = d.tot + n]

\* the end of readBytes: hand out up to n bytes of outbuf
Deliver(d, n) ==
    LET m == Min(d.out, n)
    IN  [d EXCEPT !.out = d.out - m, !.tot = d.tot + m]

\* the filters a fill may return
FilterSpecs == [offset : FilterOffs, length : FilterLens]
FilterLists == {fl \in SeqsUpTo(FilterSpecs, MaxFiltPerFill) : TRUE}

InitDrIdle ==
    /\ dr = DecodeReaderZero /\ drPc = "idle" /\ drN = 0
    /\ drRet = [n |-> 0, err |-> "nil"] /\ drFills = 0

\* decodeReader.init has reset the window; a solid file starts where the previous
\* one stopped, which may be just before the end of the window
InitDr ==
    /\ InitDrIdle
    /\ \E gap \in StartGaps :
          win = [reset(WindowZero, 18, TRUE) EXCEPT
                    !.w = IF gap = 0 THEN 0 ELSE minWindowSize - gap,
                    !.r = IF gap = 0 THEN 0 ELSE minWindowSize - gap]
    /\ winLast = "reset" /\ winOps = 0

\* the outcome of a readBytes(n) call that ran to st with state D
DrFinish(res, n) ==
    IF res.st = "fill"
    THEN /\ win' = res.D.win /\ dr' = res.D.d
         /\ drPc' = "fill" /\ drN' = n
         /\ UNCHANGED drRet
    ELSE IF res.st = "deliver"
    THEN /\ win' = res.D.win
         /\ dr' = [Deliver(res.D.d, n) EXCEPT !.deliv = @ + Min(res.D.d.out, n)]
         /\ drPc' = "idle" /\ drN' = 0
         /\ drRet' = [n |-> Min(res.D.d.out, n), err |-> "nil"]
    ELSE /\ win' = res.D.win
         /\ dr' = [res.D.d EXCEPT !.fatal = IF @ = "nil" /\ res.st \notin {"nil", "EOF"}
                                            THEN res.st ELSE @]
         /\ drPc' = "idle" /\ drN' = 0
         /\ drRet' = [n |-> 0, err |-> res.st]

\* readBytes(n), up to its return or to its call of the decoder
DrReadBytes ==
    /\ drPc = "idle"
    /\ \E n \in ReadSizes : DrFinish(ReadLoop([D |-> [win |-> win, d |-> dr], st |-> "loop"]), n)
    /\ UNCHANGED drFills
    /\ UNCHANGED notDrVars

\* the decoder's fill writes data and returns filters; readBytes goes on
DrFill ==
    /\ drPc = "fill"
    /\ drFills < MaxFills
    /\ \E k \in FillWrites, fl \in FilterLists :
          DrFinish(AfterFill(fill([win |-> win, d |-> dr],
                                  [write |-> k, fl |-> fl, err |-> "nil"])), drN)
    /\ drFills' = drFills + 1
    /\ UNCHANGED notDrVars

\* the decoder has no more data: fill returns io.EOF
DrFillEOF ==
    /\ drPc = "fill"
    /\ DrFinish(AfterFill(fill([win |-> win, d |-> dr],
                               [write |-> 0, fl |-> <<>>, err |-> "EOF"])), drN)
    /\ UNCHANGED drFills
    /\ UNCHANGED notDrVars

----------------------------------------------------------------------------
(* Packed file reader: src/unnamed/part_005 packedFileReader, src/volume.go volume *)

MaxBlocks   == 3             \* file blocks the archive parser returns in one behaviour
PkSizes     == {0, 2}        \* PackedSize of a block
PkNames     == {1, 2}        \* file names
PkReadSizes == {1, 3}        \* len(p) of a Read

\* fileBlockHeader: name 0 stands for a nil header
NoHeader ==
    [first |-> FALSE, last |-> FALSE, name |-> 0, size |-> 0, packedOff |-> 0, volnum |-> 0]

\* what the archive parser and the volume manager do during one v.nextBlock():
\* pre is the parser's first answer ("none": no volume end), open the outcome of
\* opening the next volume, res what the parser returns then, and the header
VolEvents ==
    [pre : {"none", "volEnd", "volOrArcEnd"}, open : {"ok"}, res : {"block"},
     first : BOOLEAN, last : BOOLEAN, name : PkNames, size : PkSizes]
    \cup
    [pre : {"none", "volEnd", "volOrArcEnd"}, open : {"ok"}, res : {"EOF", "parseErr"},
     first : {FALSE}, last : {FALSE}, name : {0}, size : {0}]
    \cup
    [pre : {"volEnd", "volOrArcEnd"}, open : {"ErrNotExist", "openErr"}, res : {"EOF"},
     first : {FALSE}, last : {FALSE}, name : {0}, size : {0}]

\* volume.nextBlock: the error returned ("nil" with a block) and the volume number
volNextBlock(num, ev) ==
    IF ev.pre = "none"
    THEN [err |-> IF ev.res = "block" THEN "nil" ELSE ev.res, num |-> num]
    ELSE IF ev.open = "ok"                         \* v.open(nextVol), then parse again
    THEN [err |-> IF ev.res = "block" THEN "nil" ELSE ev.res, num |-> num + 1]
    ELSE IF ev.pre = "volOrArcEnd" /\ ev.open = "ErrNotExist"
    THEN [err |-> "EOF", num |-> num]              \* assume end of archive
    ELSE [err |-> ev.open, num |-> num]

\* the volume after v.nextBlock() returned r: positioned on the data of the block
\* returned, which is not yet a block of the current file
VolAfter(f, ev, r) ==
    IF r.err = "nil"
    THEN [f EXCEPT !.num = r.num, !.rem = ev.size, !.blk = "none"]
    ELSE [f EXCEPT !.rem = 0, !.end = r.err]

\* the header v.nextBlock() returns
VolHeader(ev, r) ==
    [first |-> ev.first, last |-> ev.last, name |-> ev.name, size |-> ev.size,
     packedOff |-> 0, volnum |-> r.num]

\* v.Read(p) within the current block: short reads one byte only; eofWith
\* reports io.EOF together with the last bytes of the block instead of afterwards
volRead(rem, p, short, eofWith) ==
    IF rem = 0 THEN [n |-> 0, err |-> "EOF"]
    ELSE LET n == IF short THEN 1 ELSE Min(p, rem)
         IN  [n |-> n, err |-> IF n = rem /\ eofWith THEN "EOF" ELSE "nil"]

\* packedFileReader.init
packedInit(f, h) ==
    IF ~h.first THEN [f |-> f, err |-> "ErrInvalidFileBlock"]
    ELSE [f |-> [f EXCEPT !.h = [h EXCEPT !.packedOff = 0], !.blk = "file"], err |-> "nil"]

\* packedFileReader.nextBlock before it calls f.v.nextBlock(): "call" when it does
nextBlockStart(f) ==
    IF f.h = NoHeader THEN "EOF"
    ELSE IF f.h.last THEN "EOF"
    ELSE "call"

\* mutant: the offset of a block is the PackedSize of the block before it
PackedOffLast(f) == f.h.size

\* "h.packedOff = f.h.packedOff + f.h.PackedSize" of packedFileReader.nextBlock
PackedOffNext(f) == f.h.packedOff + f.h.size

\* mutant: the end of the archive is passed on as io.EOF
NextBlockEndPass(f, h, verr) ==
    IF verr # "nil"
    THEN [f |-> f, err |-> verr]
    ELSE IF h.first \/ h.name # f.h.name
    THEN [f |-> [f EXCEPT !.blk = "deviant"], err |-> "ErrInvalidFileBlock"]
    ELSE [f |-> [f EXCEPT !.h = [h EXCEPT !.packedOff = PackedOffNext(f)],
                          !.blk = "file"],
          err |-> "nil"]

\* packedFileReader.nextBlock once f.v.nextBlock() has returned h and verr
nextBlockEnd(f, h, verr) ==
    IF verr # "nil"
    THEN [f |-> f, err |-> IF verr = "EOF" THEN "ErrUnexpectedArcEnd" ELSE verr]
    ELSE IF h.first \/ h.name # f.h.name
    THEN [f |-> [f EXCEPT !.blk = "deviant"], err |-> "ErrInvalidFileBlock"]
    ELSE [f |-> [f EXCEPT !.h = [h EXCEPT !.packedOff = PackedOffNext(f)],
                          !.blk = "file"],
          err |-> "nil"]

\* f.nextBlock() when f.v.nextBlock() answers with ev
NextBlockOn(f, ev, r) == nextBlockEnd(VolAfter(f, ev, r), VolHeader(ev, r), r.err)

\* mutant: bytes read together with an error are not returned
ReadResultDrop(n, err) == [n |-> IF err # "nil" THEN 0 ELSE n, err |-> err]

\* "return n, err" of packedFileReader.Read
readResult(n, err) == [n |-> n, err |-> err]

\* blk tells what the block the volume is positioned on is: "file", the current
\* block f.h of the file; "deviant", a block that nextBlock refused; else "none"
PkZero == [h |-> NoHeader, blk |-> "none", rem |-> 0, num |-> 0, end |-> "no"]

\* blocks: blocks parsed so far; for the current file: sum, the PackedSize of its
\* blocks added up; delivered, the bytes Read returned; alien, some of them came from a block that nextBlock refused; err
\* and eof, a call returned an error or io.EOF; span, its blocks lie in several volumes
PkGZero == [blocks |-> 0, sum |-> 0, delivered |-> 0, alien |-> FALSE, err |-> FALSE,
            eof |-> FALSE, span |-> FALSE]

InitPkIdle ==
    /\ pk = PkZero /\ pkPc = "idle" /\ pkCall = [p |-> 0, n |-> 0]
    /\ pkRet = [op |-> "new", n |-> 0, err |-> "nil"] /\ pkG = PkGZero

\* newPackedFileReader(v) on a volume that has returned no block yet
InitPk == InitPkIdle

\* the events v.nextBlock() can answer with: no block beyond MaxBlocks, and the
\* end of the archive, once reported, is reported again
EventsNow ==
    {ev \in VolEvents :
        /\ ev.res = "block" /\ ev.open = "ok" => pkG.blocks < MaxBlocks /\ pk.end = "no"
        /\ pk.end # "no" => volNextBlock(pk.num, ev).err = pk.end}

\* the bookkeeping after f.v.nextBlock() returned r and f.nextBlock() returned e
Parsed(g, f, r, e) ==
    [g EXCEPT !.blocks = IF r.err = "nil" THEN @ + 1 ELSE @,
              !.sum = IF e.err = "nil" THEN @ + e.f.h.size ELSE @,
              !.span = @ \/ (e.err = "nil" /\ e.f.h.volnum # f.h.volnum)]

\* Read returns res on reader f; alien is TRUE when its bytes come from a block
\* that nextBlock refused
PkReturnRead(f, res, g, alien) ==
    /\ pk' = f
    /\ pkPc' = "idle"
    /\ pkCall' = [p |-> 0, n |-> 0]
    /\ pkRet' = [op |-> "Read", n |-> res.n, err |-> res.err]
    /\ pkG' = [g EXCEPT !.delivered = @ + res.n,
                        !.alien = @ \/ (alien /\ res.n > 0),
                        !.err = @ \/ res.err \notin {"nil", "EOF"},
                        !.eof = @ \/ res.err = "EOF"]

\* one iteration of the loop of Read on reader f: v is what f.v.Read(p) returned
PkReadIter(f, p, v, g) ==
    IF v.err = "EOF" /\ nextBlockStart(f) = "call"
    THEN \* nextBlock calls f.v.nextBlock(): the call goes on in PkReadNextBlock
         /\ pk' = [f EXCEPT !.rem = @ - v.n]
         /\ pkPc' = "read"
         /\ pkCall' = [p |-> p, n |-> v.n]
         /\ pkG' = g
         /\ UNCHANGED pkRet
    ELSE PkReturnRead([f EXCEPT !.rem = @ - v.n], readResult(v.n, v.err), g,
                      f.blk = "deviant")

\* packedFileReader.Read(p)
PkRead ==
    /\ pkPc = "idle"
    /\ \E p \in PkReadSizes, short \in BOOLEAN, eofWith \in BOOLEAN :
          PkReadIter(pk, p, volRead(pk.rem, p, short, eofWith), pkG)
    /\ UNCHANGED notPkVars

\* Read once nextBlock has returned e: return, or loop to the next f.v.Read(p)
PkReadResume(e, g, short, eofWith) ==
    IF pkCall.n > 0 \/ e.err # "nil"
    THEN PkReturnRead(e.f, readResult(pkCall.n, e.err), g, pk.blk = "deviant")
    ELSE PkReadIter(e.f, pkCall.p, volRead(e.f.rem, pkCall.p, short, eofWith), g)

\* Read, from the return of f.v.nextBlock() inside nextBlock
PkReadNextBlock ==
    /\ pkPc = "read"
    /\ \E ev \in EventsNow, short \in BOOLEAN, eofWith \in BOOLEAN :
          \E r \in {volNextBlock(pk.num, ev)} :
          \E e \in {NextBlockOn(pk, ev, r)} :
              PkReadResume(e, Parsed(pkG, pk, r, e), short, eofWith)
    /\ UNCHANGED notPkVars

\* packedFileReader.nextFile(), up to its first call of f.v.nextBlock()
PkNextFile ==
    /\ pkPc = "idle"
    /\ pkPc' = IF nextBlockStart(pk) = "call" THEN "skip" ELSE "get"
    /\ UNCHANGED <<pk, pkCall, pkRet, pkG>>
    /\ UNCHANGED notPkVars

\* nextFile, from the return of f.v.nextBlock() inside the loop over nextBlock
PkSkipNextBlock ==
    /\ pkPc = "skip"
    /\ \E ev \in EventsNow :
          \E r \in {volNextBlock(pk.num, ev)} :
          \E e \in {NextBlockOn(pk, ev, r)} :
              /\ pk' = e.f
              /\ IF e.err # "nil"
                 THEN /\ pkPc' = "idle"
                      /\ pkRet' = [op |-> "nextFile", n |-> 0, err |-> e.err]
                      /\ pkG' = [Parsed(pkG, pk, r, e) EXCEPT !.err = TRUE]
                 ELSE /\ pkPc' = IF nextBlockStart(e.f) = "call" THEN "skip" ELSE "get"
                      /\ pkG' = Parsed(pkG, pk, r, e)
                      /\ UNCHANGED pkRet
    /\ UNCHANGED pkCall
    /\ UNCHANGED notPkVars

\* nextFile, from the return of "h, err := f.v.nextBlock()" to its end
PkGetNextBlock ==
    /\ pkPc = "get"
    /\ \E ev \in EventsNow :
          \E r \in {volNextBlock(pk.num, ev)} :
          \E i \in {packedInit(VolAfter(pk, ev, r), VolHeader(ev, r))} :
              /\ pk' = i.f
              /\ pkRet' = [op |-> "nextFile", n |-> 0,
                           err |-> IF r.err = "nil" THEN i.err ELSE r.err]
              /\ pkG' = IF r.err = "nil" /\ i.err = "nil"
                        THEN [PkGZero EXCEPT !.blocks = pkG.blocks + 1, !.sum = ev.size]
                        ELSE [pkG EXCEPT !.blocks = IF r.err = "nil" THEN @ + 1 ELSE @,
                                         !.err = TRUE]
    /\ pkPc' = "idle"
    /\ UNCHANGED pkCall
    /\ UNCHANGED notPkVars

----------------------------------------------------------------------------
(* Checksum reader: src/unnamed/part_005 checksumReader *)

MaxFileLen == 3               \* bytes of the file
CkBytes == {1, 2}             \* values of its bytes
CkReadSizes == {1, 2, 4}      \* len(p) of a Read

MacLen == 8                   \* bytes of a keyed sum

RECURSIVE Xor8(_, _)
\* a ^ b on bytes
Xor8(a, b) ==
    IF a = 0 THEN b ELSE IF b = 0 THEN a
    ELSE ((a + b) % 2) + 2 * Xor8(a \div 2, b \div 2)

RECURSIVE Hash32Acc(_, _)
Hash32Acc(bs, v) ==
    IF Len(bs) = 0 THEN v ELSE Hash32Acc(Tail(bs), (v * 31 + Head(bs)) % 65521)

\* Stand-in for cr.hash.Sum(nil) of a 4-byte hash (CRC32): a fixed function of
\* the bytes written so far that depends on their values and their order.
Hash32(bs) ==
    <<Hash32Acc(bs, 1) \div 256, Hash32Acc(bs, 1) % 256,
      (Hash32Acc(bs, 1) * 3) % 256, (Hash32Acc(bs, 1) \div 7) % 256>>

\* Stand-in for HMAC-SHA-256: MacLen bytes, a fixed function of key and message.
Mac(key, msg) ==
    [i \in 1..MacLen |-> ((key[1] + i) * (msg[((i - 1) % Len(msg)) + 1] + i) + i) % 256]

RECURSIVE FoldFrom(_, _)
\* "for i, v := range sum[4:] { sum[i&3] ^= v }" from index i on, then sum[:4]
FoldFrom(sum, i) ==
    IF 4 + i >= Len(sum) THEN SubSeq(sum, 1, 4)
    ELSE FoldFrom([sum EXCEPT ![(i % 4) + 1] = Xor8(@, sum[4 + i + 1])], i + 1)

Fold(sum) == FoldFrom(sum, 0)

\* mutant: the HMAC is cut to 4 bytes without folding the rest into them
KeyedNoFold(h, sum) ==
    IF Len(h.hashKey) > 0
    THEN IF Len(h.sum) = 4 THEN SubSeq(Mac(h.hashKey, sum), 1, 4) ELSE Mac(h.hashKey, sum)
    ELSE sum

\* eofError from "if len(h.hashKey) > 0": the sum that is compared with h.sum
keyedSum(h, sum) ==
    IF Len(h.hashKey) > 0
    THEN IF Len(h.sum) = 4 THEN Fold(Mac(h.hashKey, sum)) ELSE Mac(h.hashKey, sum)
    ELSE sum

\* h.genKeys(): the header with its keys generated
GenKeys(h) == [h EXCEPT !.hashKey = h.keyGen]

\* eofError on header h = cr.pr.h with the bytes hashed so far: the header after
\* the call and the error returned
eofError(h, hashed) ==
    IF ~h.first /\ h.genKeys = "fail"
    THEN [h |-> h, err |-> "genKeysErr"]
    ELSE IF ~h.first /\ h.genKeys = "ok"
    THEN [h |-> GenKeys(h),
          err |-> IF keyedSum(GenKeys(h), Hash32(hashed)) # h.sum
                  THEN "ErrBadFileChecksum" ELSE "EOF"]
    ELSE [h |-> h,
          err |-> IF keyedSum(h, Hash32(hashed)) # h.sum THEN "ErrBadFileChecksum" ELSE "EOF"]

\* the block the inner reader is in when a Read starts: the next one when the
\* current one is used up
InnerBlock(c) == IF c.idx < Len(c.hs) /\ c.pos >= c.cut THEN c.idx + 1 ELSE c.idx

\* the end of block idx in the file data
InnerLimit(c, idx) == IF idx < Len(c.hs) THEN c.cut ELSE Len(c.data)

\* the number of bytes a Read takes from block idx
InnerCount(c, idx, p, short) ==
    IF InnerLimit(c, idx) = c.pos THEN 0
    ELSE IF short THEN 1 ELSE Min(p, InnerLimit(c, idx) - c.pos)

\* the inner reader after n bytes were taken from block idx
InnerTake(c, n, idx, eofWith, fail) ==
    [c   |-> [c EXCEPT !.idx = IF c.pos + n = Len(c.data) THEN Len(c.hs) ELSE idx,
                       !.pos = @ + n],
     b   |-> SubSeq(c.data, c.pos + 1, c.pos + n),
     err |-> IF fail # "nil" THEN fail
             ELSE IF c.pos + n = Len(c.data) /\ (n = 0 \/ eofWith) THEN "EOF" ELSE "nil"]

\* cr.archiveFile.Read(p) on the inner reader: it returns bytes of the current
\* block only (short: one byte), io.EOF at the end of the last block, with the
\* last bytes (eofWith) or after them, or the error fail; it moves on to the next
\* block (cr.pr.h changes) when the current one is used up
innerRead(c, p, short, eofWith, fail) ==
    InnerTake(c, InnerCount(c, InnerBlock(c), p, short), InnerBlock(c), eofWith, fail)

\* cr.archiveFile.ReadByte(): one byte, or an error and no byte
innerReadByte(c, fail) ==
    IF fail # "nil" THEN [c |-> c, b |-> <<>>, err |-> fail]
    ELSE innerRead(c, 1, TRUE, FALSE, "nil")

\* "return n, cr.eofError()" where the call has returned e
ReturnEof(c, b, e) == [c |-> [c EXCEPT !.hs[c.idx] = e.h], b |-> b, err |-> e.err]

\* cr.hash.Write(b)
hashWrite(c, b) == [c EXCEPT !.hash = @ \o b]

\* a Read that compares the sums after every inner Read
ChecksumReadEager(r) ==
    IF r.err \notin {"nil", "EOF"}
    THEN [c |-> r.c, b |-> r.b, err |-> r.err]
    ELSE ReturnEof(hashWrite(r.c, r.b), r.b,
                   eofError(r.c.hs[r.c.idx], hashWrite(r.c, r.b).hash))

\* checksumReader.Read once the inner Read has returned r
checksumRead(r) ==
    IF Len(r.b) > 0
    THEN [c |-> hashWrite(r.c, r.b), b |-> r.b, err |-> "nil"] \* err of hash.Write
    ELSE IF r.err # "EOF"
    THEN [c |-> r.c, b |-> r.b, err |-> r.err]
    ELSE ReturnEof(r.c, r.b, eofError(r.c.hs[r.c.idx], r.c.hash))

\* checksumReader.ReadByte once the inner ReadByte has returned r
checksumReadByte(r) ==
    IF r.err # "nil"
    THEN IF r.err # "EOF"
         THEN [c |-> r.c, b |-> <<>>, err |-> r.err]
         ELSE ReturnEof(r.c, <<>>, eofError(r.c.hs[r.c.idx], r.c.hash))
    ELSE [c |-> hashWrite(r.c, r.b), b |-> r.b, err |-> "nil"]

\* the sums a header may declare for the file data
DeclaredSums(data) ==
    {Hash32(data), Fold(Mac(<<7>>, Hash32(data))), Fold(Mac(<<9>>, Hash32(data))),
     Mac(<<7>>, Hash32(data)), <<0, 0, 0, 0>>}

\* the headers of the last block of a file: genKeys is "nil" when the file is not
\* encrypted, else what h.genKeys() will do; keyGen is the hash key it generates
LastHeaders(data, isFirst) ==
    {h \in [first : {isFirst}, sum : DeclaredSums(data), genKeys : {"nil", "ok", "fail"},
            hashKey : {<<>>, <<7>>}, keyGen : {<<>>, <<7>>, <<9>>}] :
        /\ h.genKeys # "ok" => h.keyGen = h.hashKey
        /\ h.genKeys = "ok" => h.keyGen # <<>> /\ h.hashKey \in {<<>>, h.keyGen}}

CkHeaderZero ==
    [first |-> TRUE, sum |-> <<>>, genKeys |-> "nil", hashKey |-> <<>>, keyGen |-> <<>>]

InitCkIdle ==
    /\ ck = [hash |-> <<>>, hs |-> <<>>, idx |-> 0, cut |-> 0, data |-> <<>>, pos |-> 0]
    /\ ckRet = [op |-> "new", n |-> 0, err |-> "nil", inner |-> "none"]
    /\ ckOut = <<>>

\* newArchiveFile has built the reader for a file of one block, or of two blocks
\* with the first one cut bytes long
InitCk ==
    /\ \E data \in SeqsUpTo(CkBytes, MaxFileLen) :
          \/ \E h \in LastHeaders(data, TRUE) :
                ck = [hash |-> <<>>, hs |-> <<h>>, idx |-> 1, cut |-> 0,
                      data |-> data, pos |-> 0]
          \/ \E h \in LastHeaders(data, FALSE), cut \in 0..Len(data) :
                ck = [hash |-> <<>>,
                      hs |-> <<[CkHeaderZero EXCEPT !.genKeys = IF h.genKeys = "nil"
                                                              THEN "nil" ELSE "ok"], h>>,
                      idx |-> 1, cut |-> cut, data |-> data, pos |-> 0]
    /\ ckRet = [op |-> "new", n |-> 0, err |-> "nil", inner |-> "none"]
    /\ ckOut = <<>>

\* the errors the inner reader may fail with
InnerFails == {"nil", "ErrShortFile"}

\* checksumReader.Read(p)
CkRead ==
    /\ \E p \in CkReadSizes, short \in BOOLEAN, eofWith \in BOOLEAN, fail \in InnerFails :
          \E i \in {innerRead(ck, p, short, eofWith, fail)} :
              \E r \in {checksumRead(i)} :
                  /\ ck' = r.c
                  /\ ckRet' = [op |-> "Read", n |-> Len(r.b), err |-> r.err, inner |-> i.err]
                  /\ ckOut' = ckOut \o r.b
    /\ UNCHANGED notCkVars

\* checksumReader.ReadByte()
CkReadByte ==
    /\ \E fail \in InnerFails :
          \E i \in {innerReadByte(ck, fail)} :
              \E r \in {checksumReadByte(i)} :
                  /\ ck' = r.c
                  /\ ckRet' = [op |-> "ReadByte", n |-> Len(r.b), err |-> r.err,
                               inner |-> i.err]
                  /\ ckOut' = ckOut \o r.b
    /\ UNCHANGED notCkVars

----------------------------------------------------------------------------
(* Seekable cipher reader: src/unnamed/part_002 cipherBlockReader,
   cipherBlockFileReader *)

BlockSize == 4                \* cr.bs, bytes of a cipher block
CipherBlocks == 3             \* blocks of the encrypted file
MaxExtra == 5                 \* bytes a read of the packed data returns above the minimum
TrailLen == 2                 \* packed bytes after the last whole block, when there are any
CiReadSizes == {1, 2, BlockSize, 2 * BlockSize + 1}   \* len(p) of a Read
SeekOffsets == {-1, 0, 1, BlockSize, BlockSize + 2, 2 * BlockSize + 1}
Whences == {"SeekStart", "SeekCurrent", "SeekEnd"}

\* the packed (encrypted) bytes of the file and the IV of its header
CipherText == [i \in 1..(CipherBlocks * BlockSize + TrailLen) |-> (i * 37 + 11) % 256]
WholeLen == CipherBlocks * BlockSize
InitIV == [i \in 1..BlockSize |-> (5 * i) % 256]

\* Stand-in for cr.blk.Decrypt on one block: a fixed function of the block in
\* which every byte depends on its place and on its neighbour.
blockDecrypt(b) == [i \in 1..BlockSize |-> (b[i] * 3 + b[(i % BlockSize) + 1] + i) % 256]

XorBlock(a, b) == [i \in 1..BlockSize |-> Xor8(a[i], b[i])]

RECURSIVE CryptBlocks(_, _)
\* cr.mode.CryptBlocks(dst, src) of a CBC decrypter whose IV is iv: what dst holds
CryptBlocks(iv, src) ==
    IF Len(src) = 0 THEN <<>>
    ELSE XorBlock(blockDecrypt(SubSeq(src, 1, BlockSize)), iv)
         \o CryptBlocks(SubSeq(src, 1, BlockSize), SubSeq(src, BlockSize + 1, Len(src)))

\* the IV of the decrypter after CryptBlocks(dst, src): the last block of src
LastIV(iv, src) == IF Len(src) = 0 THEN iv ELSE SubSeq(src, Len(src) - BlockSize + 1, Len(src))

\* the plaintext of the file: its one-pass CBC decryption
Plain == CryptBlocks(InitIV, SubSeq(CipherText, 1, WholeLen))

\* packed bytes left to read; the packed data is CipherText up to c.end
Rem(c) == c.end - c.upos

\* the error of io.ReadFull and io.ReadAtLeast when the data ends too early
ShortErr(c) == IF Rem(c) = 0 THEN "EOF" ELSE "ErrUnexpectedEOF"

\* cipherBlockReader.reset(iv): inbuf and outbuf are nil
cipherReset(c, iv) == [c EXCEPT !.iv = iv, !.inl = 0, !.out = BlockSize]

\* io.ReadFull(cr.byteReader, cr.block[l:])
ReadFullBlock(c, l) ==
    IF Rem(c) < BlockSize - l
    THEN [c   |-> [c EXCEPT !.block = SubSeq(@, 1, l)
                                      \o SubSeq(CipherText, c.upos + 1, c.end)
                                      \o SubSeq(@, l + Rem(c) + 1, BlockSize),
                            !.upos = c.end],
          err |-> ShortErr(c)]
    ELSE [c   |-> [c EXCEPT !.block = SubSeq(@, 1, l)
                                      \o SubSeq(CipherText, c.upos + 1, c.upos + BlockSize - l),
                            !.upos = @ + BlockSize - l],
          err |-> "nil"]

\* fillOutbuf after ReadFull has returned r: cr.block is decrypted in place and
\* cr.outbuf = cr.block; cr.inbuf is left as it is
FillDecrypt(r) ==
    IF r.err # "nil" THEN r
    ELSE [c   |-> [r.c EXCEPT !.block = CryptBlocks(r.c.iv, r.c.block),
                              !.iv = r.c.block, !.out = 0],
          err |-> "nil"]

\* fillOutbuf as it would be if it emptied cr.inbuf once its bytes are used
FillOutbufClear(c) ==
    IF ReadFullBlock(c, c.inl).err # "nil" THEN ReadFullBlock(c, c.inl)
    ELSE [c |-> [FillDecrypt(ReadFullBlock(c, c.inl)).c EXCEPT !.inl = 0], err |-> "nil"]

\* cipherBlockReader.fillOutbuf: l := len(cr.inbuf), and cr.inbuf is cr.block[:l]
fillOutbuf(c) == FillDecrypt(ReadFullBlock(c, c.inl))

\* n = copy(p, cr.outbuf); cr.outbuf = cr.outbuf[n:]; cr.off += n
TakeOut(c, n) ==
    [c   |-> [c EXCEPT !.out = @ + n, !.off = @ + n],
     b   |-> SubSeq(c.block, c.out + 1, c.out + n),
     err |-> "nil"]

\* Read with len(p) < blockSize after fillOutbuf has returned r
ReadSmall(r, p) ==
    IF r.err # "nil" THEN [c |-> r.c, b |-> <<>>, err |-> r.err]
    ELSE TakeOut(r.c, Min(p, BlockSize - r.c.out))

\* the bytes io.ReadAtLeast(cr.byteReader, p[l:], blockSize-l) returns: at least
\* the minimum, and as many more as the reads of the packed data happen to give
ReadAtLeastCount(c, plen, extra) ==
    Min(Min(BlockSize - c.inl + extra, plen - c.inl), Rem(c))

\* Read from "n += l": p holds data, n of its bytes read now; a trailing partial
\* block goes to cr.block and cr.inbuf, the rest is decrypted in place
ReadDecrypt(c, data, n) ==
    [c   |-> [c EXCEPT !.upos = @ + n,
                       !.block = SubSeq(data, Len(data) - (Len(data) % BlockSize) + 1, Len(data))
                                 \o SubSeq(@, (Len(data) % BlockSize) + 1, BlockSize),
                       !.inl = Len(data) % BlockSize,
                       !.iv = LastIV(c.iv, SubSeq(data, 1, Len(data) - (Len(data) % BlockSize))),
                       !.off = @ + Len(data) - (Len(data) % BlockSize)],
     b   |-> CryptBlocks(c.iv, SubSeq(data, 1, Len(data) - (Len(data) % BlockSize))),
     err |-> "nil"]

\* Read with len(p) >= blockSize and p rounded down to plen bytes
ReadLarge(c, plen, n) ==
    IF Rem(c) < BlockSize - c.inl
    THEN [c |-> [c EXCEPT !.inl = 0, !.upos = c.end], b |-> <<>>, err |-> ShortErr(c)]
    ELSE ReadDecrypt(c, SubSeq(c.block, 1, c.inl) \o SubSeq(CipherText, c.upos + 1, c.upos + n), n)

\* cipherBlockReader.Read(p) with len(p) = p
cipherRead(c, p, extra) ==
    IF c.out < BlockSize THEN TakeOut(c, Min(p, BlockSize - c.out))
    ELSE IF p < BlockSize THEN ReadSmall(fillOutbuf(c), p)
    ELSE ReadLarge(c, p - (p % BlockSize), ReadAtLeastCount(c, p - (p % BlockSize), extra))

\* ReadByte after fillOutbuf, if it was called, has returned r
ByteOut(r) ==
    IF r.err # "nil" THEN [c |-> r.c, b |-> <<>>, err |-> r.err] ELSE TakeOut(r.c, 1)

\* cipherBlockReader.ReadByte()
cipherReadByte(c) ==
    IF c.out = BlockSize THEN ByteOut(fillOutbuf(c)) ELSE TakeOut(c, 1)

\* s.Seek(pos, io.SeekStart) on the reader of the packed data
packedSeek(c, pos) == [c EXCEPT !.upos = pos]

\* io.ReadFull(cr.cbr.byteReader, iv)
ReadIV(c) ==
    IF Rem(c) < BlockSize
    THEN [c |-> [c EXCEPT !.upos = c.end], iv |-> <<>>, err |-> ShortErr(c)]
    ELSE [c |-> [c EXCEPT !.upos = @ + BlockSize],
          iv |-> SubSeq(CipherText, c.upos + 1, c.upos + BlockSize), err |-> "nil"]

\* Seek, "if inBlock > 0", after fillOutbuf has returned r
SeekSkip(r, inBlock) ==
    IF r.err # "nil" THEN [c |-> r.c, n |-> 0, err |-> r.err]
    ELSE [c |-> [r.c EXCEPT !.out = inBlock, !.off = @ + inBlock],
          n |-> r.c.off + inBlock, err |-> "nil"]

\* Seek from "cr.cbr.off = blockIdx * bs"
SeekIn(c, offset) ==
    IF offset % BlockSize > 0
    THEN SeekSkip(fillOutbuf([c EXCEPT !.off = offset - (offset % BlockSize)]),
                  offset % BlockSize)
    ELSE [c |-> [c EXCEPT !.off = offset], n |-> offset, err |-> "nil"]

\* Seek with blockIdx > 0 after the previous block was read as the IV
SeekIV(r, offset) ==
    IF r.err # "nil" THEN [c |-> r.c, n |-> 0, err |-> r.err]
    ELSE SeekIn(cipherReset(r.c, r.iv), offset)

\* Seek to the absolute plaintext offset
SeekTo(c, offset) ==
    IF offset < 0 THEN [c |-> c, n |-> 0, err |-> "ErrInvalid"]
    ELSE IF offset \div BlockSize = 0
    THEN SeekIn(cipherReset(packedSeek(c, 0), InitIV), offset)
    ELSE SeekIV(ReadIV(packedSeek(c, ((offset \div BlockSize) - 1) * BlockSize)), offset)

\* cipherBlockFileReader.Seek(offset, whence)
cipherSeek(c, offset, whence) ==
    IF whence = "SeekStart" THEN SeekTo(c, offset)
    ELSE IF whence = "SeekCurrent" THEN SeekTo(c, offset + c.off)
    ELSE [c |-> c, n |-> 0, err |-> "ErrInvalid"]

\* the plaintext offset a Seek asks for
SeekTarget(c, offset, whence) == IF whence = "SeekCurrent" THEN offset + c.off ELSE offset

CipherZero ==
    [block |-> [i \in 1..BlockSize |-> 0], inl |-> 0, out |-> BlockSize,
     iv |-> InitIV, off |-> 0, upos |-> 0, end |-> WholeLen]

\* bookkeeping: a Seek has succeeded, an error was returned since, every byte
\* delivered since the last Seek (or since the start) was the plaintext byte of
\* its offset, the plaintext offset of the next byte
CiGZero == [seeked |-> FALSE, err |-> FALSE, ok |-> TRUE, pos |-> 0, sought |-> FALSE]

AfterRead(g, r) ==
    IF r.err # "nil" THEN [g EXCEPT !.err = TRUE]
    ELSE [g EXCEPT !.ok = /\ @
                          /\ g.pos + Len(r.b) <= Len(Plain)
                          /\ r.b = SubSeq(Plain, g.pos + 1, g.pos + Len(r.b)),
                   !.pos = @ + Len(r.b)]

AfterSeek(g, r, target) ==
    IF r.err # "nil" THEN [g EXCEPT !.err = TRUE, !.sought = TRUE]
    ELSE [seeked |-> TRUE, err |-> FALSE, ok |-> r.n = target, pos |-> target,
          sought |-> TRUE]

InitCiIdle ==
    /\ ci = [block |-> <<>>, inl |-> 0, out |-> 0, iv |-> <<>>, off |-> 0, upos |-> 0,
             end |-> 0]
    /\ ciRet = [op |-> "none", n |-> 0, err |-> "nil"]
    /\ ciG = CiGZero

\* newAesDecryptFileReader over packed data that ends with the last whole block
\* or TrailLen bytes after it
InitCi ==
    /\ ci \in {CipherZero, [CipherZero EXCEPT !.end = WholeLen + TrailLen]}
    /\ ciRet = [op |-> "new", n |-> 0, err |-> "nil"]
    /\ ciG = CiGZero

\* cipherBlockFileReader.Read(p)
CiRead ==
    /\ \E p \in CiReadSizes, extra \in 0..MaxExtra :
          \E r \in {cipherRead(ci, p, extra)} :
              /\ ci' = r.c
              /\ ciRet' = [op |-> "Read", n |-> Len(r.b), err |-> r.err]
              /\ ciG' = AfterRead(ciG, r)
    /\ UNCHANGED notCiVars

\* cipherBlockFileReader.ReadByte()
CiReadByte ==
    /\ \E r \in {cipherReadByte(ci)} :
          /\ ci' = r.c
          /\ ciRet' = [op |-> "ReadByte", n |-> Len(r.b), err |-> r.err]
          /\ ciG' = AfterRead(ciG, r)
    /\ UNCHANGED notCiVars

\* cipherBlockFileReader.Seek(offset, whence), to an offset within the file
CiSeek ==
    /\ \E offset \in SeekOffsets, whence \in Whences :
          /\ SeekTarget(ci, offset, whence) <= WholeLen
          /\ \E r \in {cipherSeek(ci, offset, whence)} :
                /\ ci' = r.c
                /\ ciRet' = [op |-> "Seek", n |-> r.n, err |-> r.err]
                /\ ciG' = IF whence = "SeekEnd" THEN [ciG EXCEPT !.err = TRUE, !.sought = TRUE]
                          ELSE AfterSeek(ciG, r, SeekTarget(ci, offset, whence))
    /\ UNCHANGED notCiVars

----------------------------------------------------------------------------
(* Volume: src/volume.go volume, volumeManager; openArchiveFile *)

MaxVolOpens == 3              \* attempts to open a volume file in one behaviour
MaxVolBlocks == 3             \* blocks the parser returns in one behaviour

\* v.br.ver: the format version found in a volume file
VolVersions == {"archiveVersion15", "archiveVersion50", "other"}

\* what v.arc.nextBlock(v.br) answers: a block, one of the two end markers,
\* io.EOF at the end of the archive, or another error
ParserAnswers == {"block", "errVolumeEnd", "errVolumeOrArchiveEnd", "EOF", "parseErr"}

\* what opening volume number volnum meets: the result of closing the file
\* held, of vm.openVolumeFile, of reading the signature (v.br.Reset), the
\* version found, the result of v.arc.init and the volume number n it returns
OpenGood(volnum) ==
    [close : {"nil"}, file : {"nil"}, sig : {"nil"}, ver : VolVersions,
     arcInit : {"nil"}, n : {-1, volnum, volnum + 1}]

OpenBad(volnum) ==
    [close : {"closeErr"}, file : {"nil"}, sig : {"nil"}, ver : {"archiveVersion15"},
     arcInit : {"nil"}, n : {volnum}]
    \cup
    [close : {"nil"}, file : {"ErrNotExist", "openErr"}, sig : {"nil"},
     ver : {"archiveVersion15"}, arcInit : {"nil"}, n : {volnum}]
    \cup
    [close : {"nil"}, file : {"nil"}, sig : {"ErrNoSig"}, ver : {"archiveVersion15"},
     arcInit : {"nil"}, n : {volnum}]
    \cup
    [close : {"nil"}, file : {"nil"}, sig : {"nil"}, ver : {"archiveVersion15"},
     arcInit : {"arcInitErr"}, n : {volnum}]

OpenWorlds(volnum) == OpenGood(volnum) \cup OpenBad(volnum)

\* cl is the number of the volume whose file v.cl holds, -1 for nil; src is the
\* number of the volume file v.br reads, -1 for a stream given by the caller
VolumeZero ==
    [num |-> 0, ver |-> "none", arc |-> FALSE, cl |-> -1, vm |-> FALSE, src |-> -1]

\* bookkeeping: open, the file handles that are open; peak, the most that were
\* open at once; tries, the calls of vm.openVolumeFile; blocks, the blocks
\* returned; err, a call has returned an error; vers, the versions found in the
\* volumes whose opening succeeded; refused, the numbers of the volumes that
\* volume.init refused with ErrBadVolumeNumber
VlGZero == [open |-> 0, peak |-> 0, tries |-> 0, blocks |-> 0, err |-> FALSE, vers |-> {},
            refused |-> {}]

\* a file handle is opened, closed
Opened(g) == [g EXCEPT !.open = @ + 1, !.peak = Max(@, g.open + 1), !.tries = @ + 1]
Closed(g) == [g EXCEPT !.open = @ - 1]

\* mutant: volume.init that leaves v.num as it is
InitArcNoNum(v, w, volnum) ==
    IF w.arcInit # "nil" THEN [v |-> v, met |-> w.ver, err |-> w.arcInit]
    ELSE [v   |-> v, met |-> w.ver,
          err |-> IF w.n >= 0 /\ w.n # volnum THEN "ErrBadVolumeNumber" ELSE "nil"]

\* volume.init from "n, err := v.arc.init(v.br)"; met is v.br.ver
InitArc(v, w, volnum) ==
    IF w.arcInit # "nil" THEN [v |-> v, met |-> w.ver, err |-> w.arcInit]
    ELSE [v   |-> [v EXCEPT !.num = volnum], met |-> w.ver,
          err |-> IF w.n >= 0 /\ w.n # volnum THEN "ErrBadVolumeNumber" ELSE "nil"]

\* mutant: volume.init that takes the version of every volume it reads
VolInitAnyVersion(v, w, volnum) ==
    IF w.sig # "nil" THEN [v |-> [v EXCEPT !.src = volnum], met |-> "none", err |-> w.sig]
    ELSE IF w.ver = "other" /\ ~v.arc
    THEN [v |-> [v EXCEPT !.src = volnum], met |-> w.ver, err |-> "ErrUnknownVersion"]
    ELSE InitArc([v EXCEPT !.src = volnum, !.arc = TRUE, !.ver = w.ver], w, volnum)

\* volume.init(r, volnum), r being the file of volume volnum
volInit(v, w, volnum) ==
    IF w.sig # "nil" THEN [v |-> [v EXCEPT !.src = volnum], met |-> "none", err |-> w.sig]
    ELSE IF ~v.arc
    THEN IF w.ver = "other"
         THEN [v |-> [v EXCEPT !.src = volnum], met |-> w.ver, err |-> "ErrUnknownVersion"]
         ELSE InitArc([v EXCEPT !.src = volnum, !.arc = TRUE, !.ver = w.ver], w, volnum)
    ELSE IF v.ver # w.ver
    THEN [v |-> [v EXCEPT !.src = volnum], met |-> w.ver, err |-> "ErrVerMismatch"]
    ELSE InitArc([v EXCEPT !.src = volnum], w, volnum)

\* volume.Close
volClose(v, g, w) ==
    IF v.cl = -1 THEN [v |-> v, g |-> g, err |-> "nil"]
    ELSE [v |-> [v EXCEPT !.cl = -1], g |-> Closed(g), err |-> w.close]

\* volume.open from "err = v.init(f, volnum)": i is what init returned, f is open
OpenInit(i, g, volnum) ==
    IF i.err # "nil"
    THEN [v |-> i.v,
          g |-> [Closed(g) EXCEPT !.refused = IF i.err = "ErrBadVolumeNumber"
                                              THEN @ \cup {volnum} ELSE @],
          err |-> i.err]                                                  \* f.Close()
    ELSE [v |-> [i.v EXCEPT !.cl = volnum], g |-> [g EXCEPT !.vers = @ \cup {i.met}],
          err |-> "nil"]

\* volume.open from "f, err := v.vm.openVolumeFile(volnum)": c is what Close returned
OpenFile(c, w, volnum) ==
    IF c.err # "nil" THEN c
    ELSE IF w.file # "nil"
    THEN [v |-> c.v, g |-> [c.g EXCEPT !.tries = @ + 1], err |-> w.file]
    ELSE OpenInit(volInit(c.v, w, volnum), Opened(c.g), volnum)

\* mutant: volume.open that closes the file held only after the next is open
VolOpenLate(v, g, w, volnum) ==
    IF ~v.vm THEN [v |-> v, g |-> g, err |-> "ErrFileNameRequired"]
    ELSE IF w.file # "nil"
    THEN [v |-> v, g |-> [g EXCEPT !.tries = @ + 1], err |-> w.file]
    ELSE OpenInit(volInit([v EXCEPT !.cl = -1], w, volnum),
                  IF v.cl = -1 THEN Opened(g) ELSE Closed(Opened(g)), volnum)

\* volume.open(volnum)
volOpen(v, g, w, volnum) ==
    IF ~v.vm THEN [v |-> v, g |-> g, err |-> "ErrFileNameRequired"]
    ELSE OpenFile(volClose(v, g, w), w, volnum)

\* vm.newVolume(volnum): a new volume on the file of volume volnum
vmNewVolume(g, w, volnum) ==
    IF w.file # "nil"
    THEN [v |-> VolumeZero, g |-> [g EXCEPT !.tries = @ + 1], err |-> w.file]
    ELSE OpenInit(volInit([VolumeZero EXCEPT !.vm = TRUE], w, volnum), Opened(g), volnum)

\* how the offset asked of openVolumeOffset lies to v.br.off, and whether the
\* Discard up to it fails
OffsetCases == {"zero", "same", "before", "behind", "behindErr"}

\* vm.openVolumeOffset(volnum, offset) once newVolume has returned r
openVolumeOffset(r, off) ==
    IF r.err # "nil" THEN r
    ELSE IF off \in {"zero", "same"} THEN r
    ELSE IF off = "before"
    THEN [v |-> [r.v EXCEPT !.cl = -1], g |-> Closed(r.g), err |-> "ErrInvalidHeaderOff"]
    ELSE IF off = "behindErr"
    THEN [v |-> [r.v EXCEPT !.cl = -1], g |-> Closed(r.g), err |-> "discardErr"]
    ELSE r

\* openArchiveFile from "pr := newPackedFileReader(v)": newArchiveFile fails when
\* h is not a first block or when the decoder cannot be set up (chain)
ArchiveFileOn(r, h, chain) ==
    IF r.err # "nil" THEN r
    ELSE IF ~h.first
    THEN [v |-> [r.v EXCEPT !.cl = -1], g |-> Closed(r.g), err |-> "ErrInvalidFileBlock"]
    ELSE IF chain # "nil"
    THEN [v |-> [r.v EXCEPT !.cl = -1], g |-> Closed(r.g), err |-> chain]
    ELSE r

\* mutant: openArchiveFile without the check of h.Solid
OpenArchiveFileAny(g, h, w, off, chain) ==
    ArchiveFileOn(openVolumeOffset(vmNewVolume(g, w, h.volnum), off), h, chain)

\* openArchiveFile(vm, h)
openArchiveFile(g, h, w, off, chain) ==
    IF h.solid THEN [v |-> VolumeZero, g |-> g, err |-> "ErrSolidOpen"]
    ELSE ArchiveFileOn(openVolumeOffset(vmNewVolume(g, w, h.volnum), off), h, chain)

\* the headers File.Open is called with
FileHeaders == [solid : BOOLEAN, first : BOOLEAN, volnum : {0, 1}]

VlRetZero ==
    [op |-> "none", err |-> "nil", volnum |-> 0, sig |-> "none", start |-> 0,
     opened |-> 0, mark |-> "none", openErr |-> "nil", tries |-> 0, solid |-> FALSE]

VlCallZero == [start |-> 0, mark |-> "none", opened |-> 0]

InitVlIdle ==
    /\ vl = VolumeZero
    /\ vlPc = "none"
    /\ vlCall = VlCallZero
    /\ vlRet = VlRetZero
    /\ vlG = VlGZero

\* before OpenReader, NewReader or File.Open
InitVl ==
    /\ vl = VolumeZero
    /\ vlPc = "new"
    /\ vlCall = VlCallZero
    /\ vlRet = VlRetZero
    /\ vlG = VlGZero

\* a constructor returns r
VlMade(r, op, solid) ==
    /\ vl' = r.v
    /\ vlG' = [r.g EXCEPT !.err = r.err # "nil"]
    /\ vlPc' = IF r.err = "nil" THEN "idle" ELSE "dead"
    /\ vlRet' = [VlRetZero EXCEPT !.op = op, !.err = r.err, !.solid = solid,
                                  !.tries = r.g.tries]
    /\ UNCHANGED vlCall

\* openVolume(opt): vm.newVolume(0)
VlOpenReader ==
    /\ vlPc = "new"
    /\ \E w \in OpenWorlds(0) : VlMade(vmNewVolume(vlG, w, 0), "openVolume", FALSE)
    /\ UNCHANGED notVlVars

\* NewReader(r): newVolume(r, options, 0) on a stream of the caller, no volume manager
VlNewReader ==
    /\ vlPc = "new"
    /\ \E w \in OpenWorlds(0) :
          \E i \in {volInit(VolumeZero, w, -1)} :
              VlMade([v |-> [i.v EXCEPT !.num = IF i.err = "nil" THEN 0 ELSE @],
                      g |-> IF i.err = "nil" THEN [vlG EXCEPT !.vers = {i.met}] ELSE vlG,
                      err |-> i.err], "NewReader", FALSE)
    /\ UNCHANGED notVlVars

\* File.Open: openArchiveFile(f.vm, f.h)
VlFileOpen ==
    /\ vlPc = "new"
    /\ \E h \in FileHeaders, off \in OffsetCases, chain \in {"nil", "errUnknownDecoder"} :
          \E w \in OpenWorlds(h.volnum) :
              VlMade(openArchiveFile(vlG, h, w, off, chain), "FileOpen", h.solid)
    /\ UNCHANGED notVlVars

\* nextBlock returns err after the parser answered a
VlReturn(v, g, a, err, openErr) ==
    /\ vl' = v
    /\ vlPc' = "idle"
    /\ vlG' = [g EXCEPT !.err = @ \/ err # "nil",
                        !.blocks = IF err = "nil" THEN @ + 1 ELSE @]
    /\ vlRet' = [op |-> "nextBlock", err |-> err, volnum |-> IF err = "nil" THEN v.num ELSE -1,
                 sig |-> a, start |-> vlCall'.start, opened |-> vlCall'.opened,
                 mark |-> vlCall'.mark, openErr |-> openErr, tries |-> g.tries,
                 solid |-> FALSE]

\* one round of the loop of nextBlock: the parser answers a
VlRound(a) ==
    IF a \in {"errVolumeEnd", "errVolumeOrArchiveEnd"}
    THEN /\ vlPc' = "open"
         /\ UNCHANGED <<vl, vlRet, vlG>>
    ELSE VlReturn(vl, vlG, a, IF a = "block" THEN "nil" ELSE a, "nil")

\* the answers the parser may give now
AnswersNow ==
    {a \in ParserAnswers :
        /\ a = "block" => vlG.blocks < MaxVolBlocks
        /\ a \in {"errVolumeEnd", "errVolumeOrArchiveEnd"} => vlG.tries < MaxVolOpens}

\* volume.nextBlock(), up to the return or to v.open(nextVol)
VlNextBlock ==
    /\ vlPc = "idle"
    /\ \E a \in AnswersNow :
          /\ vlCall' = [start |-> vl.num, mark |-> a, opened |-> 0]
          /\ VlRound(a)
    /\ UNCHANGED notVlVars

\* mutant: a next volume that does not exist is never taken for the end
NextBlockErrNoEnd(mark, openErr) == openErr

\* mutant: a next volume that does not exist is the end after either marker
NextBlockErrAnyEnd(mark, openErr) == IF openErr = "ErrNotExist" THEN "EOF" ELSE openErr

\* nextBlock, the error returned when v.open(nextVol) failed with openErr after
\* the parser's marker mark
nextBlockErr(mark, openErr) ==
    IF mark = "errVolumeOrArchiveEnd" /\ openErr = "ErrNotExist" THEN "EOF" ELSE openErr

\* nextBlock after v.open(nextVol) has returned r
VlOpened(r) ==
    IF r.err = "nil"
    THEN /\ vl' = r.v
         /\ vlG' = r.g
         /\ vlPc' = "parse"
         /\ vlCall' = [vlCall EXCEPT !.opened = @ + 1]
         /\ UNCHANGED vlRet
    ELSE /\ UNCHANGED vlCall
         /\ VlReturn(r.v, r.g, vlCall.mark, nextBlockErr(vlCall.mark, r.err), r.err)

\* nextBlock, v.open(nextVol) with nextVol = v.num + 1
VlOpenNext ==
    /\ vlPc = "open"
    /\ \E w \in OpenWorlds(vl.num + 1) : VlOpened(volOpen(vl, vlG, w, vl.num + 1))
    /\ UNCHANGED notVlVars

\* nextBlock, the next round of its loop, in the volume just opened
VlParse ==
    /\ vlPc = "parse"
    /\ \E a \in AnswersNow :
          /\ vlCall' = [vlCall EXCEPT !.mark = a]
          /\ VlRound(a)
    /\ UNCHANGED notVlVars

\* Close of the reader: volume.Close
VlClose ==
    /\ vlPc = "idle"
    /\ \E w \in {x \in OpenWorlds(0) : x.file = "nil" /\ x.sig = "nil" /\ x.arcInit = "nil"
                                       /\ x.ver = "archiveVersion15" /\ x.n = 0} :
          \E c \in {volClose(vl, vlG, w)} :
              /\ vl' = c.v
              /\ vlG' = c.g
              /\ vlRet' = [VlRetZero EXCEPT !.op = "Close", !.err = c.err]
    /\ vlPc' = "closed"
    /\ UNCHANGED vlCall
    /\ UNCHANGED notVlVars

----------------------------------------------------------------------------
(* Volume manager shared by the File handles of one listing (volume.go) *)

NumHandles == 2               \* File handles that re-open volumes concurrently
MaxVmVol == 2                 \* highest volume number a handle asks for

VmHandles == 1..NumHandles

\* the statements of openVolumeFile and tryNewName that read or write vm.files
\* or vm.old
VmAccessPcs == {"cached", "last", "tryNew", "tryOld", "loop"}

\* vm.mu.Lock() without waiting for the holder
LockNoWait(mu) == TRUE

\* vm.mu.Lock() returns only when no goroutine holds the mutex
CanLock(mu) == mu = 0

\* the results of vm.opt.fs.Open that the callers tell apart: a file, an error
\* that is fs.ErrNotExist, any other error
OpenResults == {"ok", "ErrNotExist", "err"}

\* volumeManager: files holds "first" for the name given by the caller and
\* "new" or "old" for a name derived by nextNewVolName or nextOldVolName;
\* digits is hasDigits of the first name with its extension fixed.
\* Bookkeeping: flag is what v.arc.useOldNaming() returned for the first volume,
\* newOpen the result of opening the first name of the new scheme ("none" when
\* that was never tried), opened the volume numbers whose Open succeeded,
\* inOrder whether every call asked for a volume that is listed or the one
\* after the last listed, last the latest call of vm.opt.fs.Open: the volume
\* number asked for, the index in vm.files of the name opened, and whether a
\* name was listed for that number when Open was called
VmOf(names, flag, digits, newOpen) ==
    [files |-> names,
     old |-> flag \/ newOpen = "ErrNotExist" \/ (~digits /\ Len(names) >= 2),
     mu |-> 0, digits |-> digits,
     flag |-> flag, newOpen |-> newOpen, opened |-> 0..(Len(names) - 1), inOrder |-> TRUE,
     last |-> [vol |-> -1, idx |-> -1, listed |-> FALSE]]

\* the volume manager after openVolume, and after one more volume was opened
\* while listing
VmAfterList ==
    {VmOf(<<"first">>, o, d, "none") : o \in BOOLEAN, d \in BOOLEAN}
    \cup {VmOf(<<"first", "old">>, TRUE, d, "none") : d \in BOOLEAN}
    \cup {VmOf(<<"first", "old">>, FALSE, FALSE, "none")}
    \cup {VmOf(<<"first", "old">>, FALSE, TRUE, "ErrNotExist")}
    \cup {VmOf(<<"first", "new">>, FALSE, TRUE, "ok")}

InitVmIdle ==
    /\ vm = VmOf(<<"first">>, FALSE, FALSE, "none")
    /\ vmPc = [p \in VmHandles |-> "none"]
    /\ vmVol = [p \in VmHandles |-> 0]

InitVm ==
    /\ vm \in VmAfterList
    /\ vmPc = [p \in VmHandles |-> "idle"]
    /\ vmVol = [p \in VmHandles |-> 0]

VmGoto(p, pc) == vmPc' = [vmPc EXCEPT ![p] = pc]

\* bookkeeping of vm.opt.fs.Open on the name of index n, for the volume number ask
VmOpened(v, ask, n, res) ==
    [v EXCEPT !.opened = IF res = "ok" THEN @ \cup {n} ELSE @,
              !.last = [vol |-> ask, idx |-> n, listed |-> ask < Len(v.files)]]

\* a handle calls vm.openVolumeFile(volnum)
VmCall(p) ==
    /\ vmPc[p] = "idle"
    /\ \E n \in 0..MaxVmVol : vmVol' = [vmVol EXCEPT ![p] = n]
    /\ VmGoto(p, "lock")
    /\ UNCHANGED vm
    /\ UNCHANGED notVmVars

\* vm.mu.Lock()
VmLock(p) ==
    /\ vmPc[p] = "lock"
    /\ CanLock(vm.mu)
    /\ vm' = [vm EXCEPT !.mu = p]
    /\ VmGoto(p, "cached")
    /\ UNCHANGED vmVol
    /\ UNCHANGED notVmVars

\* mutant: the cached open takes the name listed last
CachedIndexLast(v, volnum) == Len(v.files) - 1

\* the index of vm.files[volnum] in "vm.opt.fs.Open(vm.dir + vm.files[volnum])"
cachedIndex(v, volnum) == volnum

\* if volnum < len(vm.files): open the cached name and return
VmCached(p) ==
    /\ vmPc[p] = "cached"
    /\ IF vmVol[p] < Len(vm.files)
       THEN /\ \E res \in OpenResults : vm' = VmOpened(vm, vmVol[p], cachedIndex(vm, vmVol[p]), res)
            /\ VmGoto(p, "unlock")
       ELSE /\ vm' = [vm EXCEPT !.inOrder = @ /\ vmVol[p] = Len(vm.files)]
            /\ VmGoto(p, "last")
    /\ UNCHANGED vmVol
    /\ UNCHANGED notVmVars

\* the mutant of UseTryNew that does not look at vm.old
UseTryNewAlways(v) == v.digits

\* if !vm.old && hasDigits(file)
UseTryNew(v) == ~v.old /\ v.digits

\* file = vm.files[len(vm.files)-1]; with only the first name known, choose
\* between tryNewName and the old naming scheme
VmLast(p) ==
    /\ vmPc[p] = "last"
    /\ IF Len(vm.files) = 1
       THEN IF UseTryNew(vm)
            THEN VmGoto(p, "tryNew") /\ UNCHANGED vm
            ELSE VmGoto(p, "loop") /\ vm' = [vm EXCEPT !.old = TRUE]
       ELSE VmGoto(p, "loop") /\ UNCHANGED vm
    /\ UNCHANGED vmVol
    /\ UNCHANGED notVmVars

\* tryNewName: open the name of the new scheme; it is appended and the result
\* returned unless the error is fs.ErrNotExist
VmTryNew(p) ==
    /\ vmPc[p] = "tryNew"
    /\ \E res \in OpenResults :
          IF res # "ErrNotExist"
          THEN /\ VmGoto(p, "unlock")
               /\ vm' = [VmOpened(vm, vmVol[p], Len(vm.files), res)
                            EXCEPT !.files = Append(@, "new"), !.newOpen = res]
          ELSE /\ VmGoto(p, "tryOld")
               /\ vm' = [vm EXCEPT !.newOpen = res]
    /\ UNCHANGED vmVol
    /\ UNCHANGED notVmVars

\* tryNewName: open the name of the old scheme; it is appended and vm.old set
\* unless the error is fs.ErrNotExist
VmTryOld(p) ==
    /\ vmPc[p] = "tryOld"
    /\ \E res \in OpenResults :
          IF res # "ErrNotExist"
          THEN vm' = [VmOpened(vm, vmVol[p], Len(vm.files), res)
                         EXCEPT !.old = TRUE, !.files = Append(@, "old")]
          ELSE vm' = [vm EXCEPT !.newOpen = "none"]
    /\ VmGoto(p, "unlock")
    /\ UNCHANGED vmVol
    /\ UNCHANGED notVmVars

\* for len(vm.files) <= volnum: append the next name; then open the last one
VmLoop(p) ==
    /\ vmPc[p] = "loop"
    /\ IF Len(vm.files) <= vmVol[p]
       THEN /\ vm' = [vm EXCEPT !.files = Append(@, IF vm.old THEN "old" ELSE "new")]
            /\ UNCHANGED vmPc
       ELSE /\ \E res \in OpenResults : vm' = VmOpened(vm, vmVol[p], Len(vm.files) - 1, res)
            /\ VmGoto(p, "unlock")
    /\ UNCHANGED vmVol
    /\ UNCHANGED notVmVars

\* the deferred vm.mu.Unlock() and the return
VmUnlock(p) ==
    /\ vmPc[p] = "unlock"
    /\ vm' = [vm EXCEPT !.mu = 0]
    /\ VmGoto(p, "idle")
    /\ UNCHANGED vmVol
    /\ UNCHANGED notVmVars

----------------------------------------------------------------------------
(* Reader over the files of a solid archive (reader.go, part_006) *)

NumSolidFiles == 3            \* files in the archive
MaxPlainLen == 2              \* unpacked size of a file
SdByteMod == 3                \* byte values are 0..SdByteMod-1
ReaderVariants == {"eager", "lazy"}   \* Next of part_006, Next of reader.go

\* the packed byte j of file k
Packed(k, j) == (k + 2 * j) % SdByteMod

\* stand-in for decoder29/decoder50: the next plaintext byte depends on the
\* packed byte and on everything in the dictionary, which holds the plaintext
\* decoded since the last reset
RECURSIVE DictSum(_)
DictSum(d) ==
    IF d = <<>> THEN 0
    ELSE (1 + Len(d) * d[Len(d)] + DictSum(SubSeq(d, 1, Len(d) - 1))) % SdByteMod

DecodeByte(dict, k, j) == (Packed(k, j) + DictSum(dict)) % SdByteMod

\* the dictionary after decoding bytes pos..upto-1 of file k
RECURSIVE DecodeSeq(_, _, _, _)
DecodeSeq(dict, k, pos, upto) ==
    IF pos >= upto THEN dict
    ELSE DecodeSeq(Append(dict, DecodeByte(dict, k, pos)), k, pos + 1, upto)

LastBytes(d, n) == SubSeq(d, Len(d) - n + 1, Len(d))

\* h.solid: every file after the first of a solid archive
SdSolid(s, k) == s.arcSolid /\ k > 1

\* Reader: cur is the index of the current header (0 for none), chain what r.r
\* is ("nil", "dec" with the decodeReader in it, "stored" without, "raw" for the
\* bare packedFileReader), pos the plaintext bytes produced for the current
\* file, skipped whether its packed data was discarded
ReaderZero(variant, arcSolid, files) ==
    [variant |-> variant, arcSolid |-> arcSolid, files |-> files, cur |-> 0,
     chain |-> "nil", solidr |-> FALSE, pos |-> 0, skipped |-> FALSE, dict |-> <<>>]

SdGZero == [out |-> <<>>, total |-> 0, prev |-> 0, drained |-> 0]

SdFiles == [1..NumSolidFiles -> [len : 1..MaxPlainLen, comp : BOOLEAN]]

\* the decoder runs up to plaintext offset upto of the current file
DecodeTo(s, upto) ==
    [s EXCEPT !.dict = DecodeSeq(s.dict, s.cur, s.pos, upto), !.pos = Max(@, upto)]

\* Next that leaves the rest of the current file undecoded
DrainNone(s) == s

\* io.Copy(ioutil.Discard, r.solidr): the decodeReader is read to io.EOF
Drain(s) == DecodeTo(s, s.files[s.cur].len)

\* d.init(r, ver, winsize, reset): the window and the decoder start afresh when
\* reset is set and keep their state otherwise
drInit(s, rst) == [s EXCEPT !.dict = IF rst THEN <<>> ELSE @, !.pos = 0]

\* part_006 Next, from newPackedFileReader on; s is the reader after the drain and
\* the skip
NextEagerOpen(s) ==
    IF s.cur = Len(s.files)
    THEN [s |-> s, err |-> "EOF", drained |-> s.pos]
    ELSE [s |-> IF s.files[s.cur + 1].comp
                THEN [drInit([s EXCEPT !.cur = @ + 1], ~SdSolid(s, s.cur + 1))
                        EXCEPT !.chain = "dec", !.solidr = s.arcSolid, !.skipped = FALSE]
                ELSE [s EXCEPT !.cur = @ + 1, !.pos = 0, !.chain = "stored",
                               !.solidr = FALSE, !.skipped = FALSE],
          err |-> "nil", drained |-> s.pos]

\* r.pr.skip()
PrSkip(s) == IF s.cur > 0 THEN [s EXCEPT !.skipped = TRUE] ELSE s

NextEager(s) == NextEagerOpen(PrSkip(IF s.solidr THEN Drain(s) ELSE s))

\* reader.go nextFile(h): the chain for the current header
nextFile(s) ==
    IF s.files[s.cur].comp
    THEN [drInit(s, ~SdSolid(s, s.cur)) EXCEPT !.chain = "dec"]
    ELSE [s EXCEPT !.chain = "stored"]

\* reader.go Next: the reader of a file not yet read is set up
LazySetup(s) ==
    IF s.chain = "nil" /\ s.cur > 0
    THEN IF s.files[s.cur].comp /\ s.arcSolid THEN nextFile(s) ELSE [s EXCEPT !.chain = "raw"]
    ELSE s

\* r.r.skip(): a decodeReader of a solid archive decodes the rest of the file
\* and discards it; then the packed data is skipped
LazySkip(s) ==
    IF s.chain = "nil" THEN s
    ELSE PrSkip(IF s.chain = "dec" /\ s.arcSolid THEN Drain(s) ELSE s)

\* reader.go Next, from nextFileBlockHeader on
NextLazyFetch(s) ==
    IF s.cur = Len(s.files)
    THEN [s |-> s, err |-> "EOF", drained |-> s.pos]
    ELSE [s |-> [s EXCEPT !.cur = @ + 1, !.pos = 0, !.chain = "nil", !.skipped = FALSE],
          err |-> "nil", drained |-> s.pos]

NextLazy(s) == NextLazyFetch(LazySkip(LazySetup(s)))

readerNext(s) == IF s.variant = "eager" THEN NextEager(s) ELSE NextLazy(s)

\* the bytes a Read of at most n bytes finds left in the current file
SdLeft(s, n) == IF s.skipped THEN 0 ELSE Min(n, s.files[s.cur].len - s.pos)

\* r.r.Read(p) on the chain of the current file
ChainRead(s, k) ==
    IF k = 0 THEN [s |-> s, b |-> <<>>, err |-> "EOF"]
    ELSE IF s.chain = "dec"
    THEN [s |-> DecodeTo(s, s.pos + k), b |-> LastBytes(DecodeTo(s, s.pos + k).dict, k),
          err |-> "nil"]
    ELSE [s |-> [s EXCEPT !.pos = @ + k], b |-> [i \in 1..k |-> Packed(s.cur, s.pos + i - 1)],
          err |-> "nil"]

\* Reader.Read: part_006 returns io.EOF without a reader; reader.go sets the
\* reader up from the saved header first
readerRead(s, n) ==
    IF s.chain = "nil"
    THEN IF s.variant = "eager" \/ s.cur = 0
         THEN [s |-> s, b |-> <<>>, err |-> "EOF"]
         ELSE ChainRead(nextFile(s), SdLeft(nextFile(s), n))
    ELSE ChainRead(s, SdLeft(s, n))

InitSdIdle ==
    /\ sd = ReaderZero("eager", FALSE, [k \in 1..NumSolidFiles |-> [len |-> 1, comp |-> FALSE]])
    /\ sdRet = [op |-> "none", n |-> 0, err |-> "nil"]
    /\ sdG = SdGZero

\* NewReader over an archive of NumSolidFiles files
InitSd ==
    /\ \E variant \in ReaderVariants, arcSolid \in BOOLEAN, files \in SdFiles :
          sd = ReaderZero(variant, arcSolid, files)
    /\ sdRet = [op |-> "new", n |-> 0, err |-> "nil"]
    /\ sdG = SdGZero

SdNext ==
    /\ sdRet.op # "none"
    /\ ~(sdRet.op = "Next" /\ sdRet.err = "EOF")
    /\ \E r \in {readerNext(sd)} :
          /\ sd' = r.s
          /\ sdRet' = [op |-> "Next", n |-> 0, err |-> r.err]
          /\ sdG' = IF r.err = "nil"
                    THEN [sdG EXCEPT !.out = <<>>, !.prev = sd.cur, !.drained = r.drained]
                    ELSE sdG
    /\ UNCHANGED notSdVars

SdRead ==
    /\ sdRet.op # "none"
    /\ ~(sdRet.op = "Read" /\ sdRet.err = "EOF")
    /\ \E n \in 1..MaxPlainLen :
          \E r \in {readerRead(sd, n)} :
              /\ sd' = r.s
              /\ sdRet' = [op |-> "Read", n |-> Len(r.b), err |-> r.err]
              /\ sdG' = [sdG EXCEPT !.out = @ \o r.b, !.total = @ + Len(r.b)]
    /\ UNCHANGED notSdVars

----------------------------------------------------------------------------
(* Length-limited reader (part_005, reader.go) *)

MaxUnpacked == 3              \* h.UnPackedSize
MaxInnerLen == 4              \* bytes the inner stream holds
LmReadSizes == 1..3           \* len(p)

\* what l.archiveFile.Read(p) may answer for len(p) = k with avail bytes left,
\* by the io.Reader contract: some bytes, the last bytes with or without io.EOF,
\* nothing yet, io.EOF at the end, or an error of its own
InnerAnswers(k, avail) ==
    {[n |-> n, err |-> "nil"] : n \in 0..Min(k, avail)}
    \cup {[n |-> avail, err |-> "EOF"] : x \in {y \in {0} : avail <= k}}
    \cup {[n |-> n, err |-> "innerErr"] : n \in 0..Min(k, avail) \ {k}}

\* what l.archiveFile.ReadByte() may answer
InnerByteAnswers(avail) ==
    IF avail > 0 THEN {[n |-> 1, err |-> "nil"], [n |-> 0, err |-> "innerErr"]}
    ELSE {[n |-> 0, err |-> "EOF"], [n |-> 0, err |-> "innerErr"]}

\* io.EOF of the inner stream passed on whatever is left
ShortErrNever(err, n) == err

\* if err == io.EOF && l.n > 0 { return n, l.shortErr }
ShortErrOr(err, n) == IF err = "EOF" /\ n > 0 THEN "ErrShortFile" ELSE err

\* &limitedReader{r, h.UnPackedSize, ErrShortFile} over an inner stream of
\* len bytes; got counts the bytes delivered
LimitedZero(size, len) == [n |-> size, size |-> size, avail |-> len, got |-> 0]

\* the part of p handed to the inner reader
LmClip(l, k) == Min(k, l.n)

\* limitedReader.Read(p) with len(p) = k when the inner reader answers a
limitedRead(l, k, a) ==
    IF l.n <= 0 THEN [l |-> l, n |-> 0, err |-> "EOF", inner |-> "none"]
    ELSE [l |-> [l EXCEPT !.n = @ - a.n, !.avail = @ - a.n, !.got = @ + a.n],
          n |-> a.n, err |-> ShortErrOr(a.err, l.n - a.n), inner |-> a.err]

\* limitedReader.ReadByte() when the inner reader answers a
limitedReadByte(l, a) ==
    IF l.n <= 0 THEN [l |-> l, n |-> 0, err |-> "EOF", inner |-> "none"]
    ELSE IF a.err # "nil"
    THEN [l |-> l, n |-> 0, err |-> ShortErrOr(a.err, l.n), inner |-> a.err]
    ELSE [l |-> [l EXCEPT !.n = @ - 1, !.avail = @ - 1, !.got = @ + 1],
          n |-> 1, err |-> "nil", inner |-> "nil"]

LmRetZero == [op |-> "none", n |-> 0, err |-> "nil", inner |-> "none"]

InitLmIdle ==
    /\ lm = LimitedZero(0, 0)
    /\ lmRet = LmRetZero

\* newArchiveFile with h.UnPackedSize known
InitLm ==
    /\ \E size \in 0..MaxUnpacked, len \in 0..MaxInnerLen : lm = LimitedZero(size, len)
    /\ lmRet = [LmRetZero EXCEPT !.op = "new"]

LmRead ==
    /\ lmRet.op # "none"
    /\ \E k \in LmReadSizes :
          \E a \in InnerAnswers(LmClip(lm, k), lm.avail) :
              \E r \in {limitedRead(lm, k, a)} :
                  /\ lm' = r.l
                  /\ lmRet' = [op |-> "Read", n |-> r.n, err |-> r.err, inner |-> r.inner]
    /\ UNCHANGED notLmVars

LmReadByte ==
    /\ lmRet.op # "none"
    /\ \E a \in InnerByteAnswers(lm.avail) :
          \E r \in {limitedReadByte(lm, a)} :
              /\ lm' = r.l
              /\ lmRet' = [op |-> "ReadByte", n |-> r.n, err |-> r.err, inner |-> r.inner]
    /\ UNCHANGED notLmVars

----------------------------------------------------------------------------
(* queueFilter on a queue of any length (decode_reader.go) *)

MaxEnq == 2                   \* queueFilter calls in one behaviour
QfLens == {0, 1, 2, maxQueuedFilters - 1, maxQueuedFilters}   \* queue lengths at the start
QfHeads == {-2, 0, 3}         \* offset of the first queued filter
QfDeltas == {0, 1}            \* offset of every other queued filter
QfOffsets == {0, 1, 3, 5}     \* offset of the filter to enqueue

\* the window after decodeReader.init
QfWin == reset(WindowZero, 18, TRUE)

\* a queue of n filters as queueFilter and readBytes leave it: every filter but
\* the first holds its distance from the one before it; the first holds its
\* distance from the read position, which processFilters can leave negative
QfQueue(n, h, dl) ==
    [i \in 1..n |-> [offset |-> IF i = 1 THEN h ELSE dl, length |-> 2, id |-> i,
                     abs |-> h + (i - 1) * dl, len0 |-> 2]]

QfRetZero ==
    [op |-> "none", err |-> "nil", off |-> 0, len |-> 0, sum |-> 0, same |-> TRUE, enq |-> 0]

InitQfIdle ==
    /\ qf = DecodeReaderZero
    /\ qfRet = QfRetZero

InitQf ==
    /\ \E n \in QfLens, h \in QfHeads, dl \in QfDeltas :
          qf = [DecodeReaderZero EXCEPT !.filters = QfQueue(n, h, dl), !.nq = n]
    /\ qfRet = [QfRetZero EXCEPT !.op = "new"]

\* the sum of the stored offsets of q[lo..hi]; over the whole queue it is the
\* offset of the last queued filter
RECURSIVE OffsetSum(_, _, _)
OffsetSum(q, lo, hi) ==
    IF lo > hi THEN 0
    ELSE IF lo = hi THEN q[lo].offset
    ELSE OffsetSum(q, lo, (lo + hi) \div 2) + OffsetSum(q, (lo + hi) \div 2 + 1, hi)

\* d.queueFilter(f)
QfEnqueue ==
    /\ qfRet.op # "none"
    /\ qfRet.enq < MaxEnq
    /\ \E off \in QfOffsets :
          \E r \in {queueFilter(qf, QfWin, [offset |-> off, length |-> 2])} :
              /\ qf' = r.d
              /\ qfRet' = [op |-> "queueFilter", err |-> r.err, off |-> off,
                           len |-> Len(qf.filters),
                           sum |-> OffsetSum(qf.filters, 1, Len(qf.filters)),
                           same |-> r.d.filters = qf.filters,
                           enq |-> qfRet.enq + 1]
    /\ UNCHANGED notQfVars

\* the queue is emptied, as decodeReader.init does when reset is set
QfClear ==
    /\ qfRet.op # "none"
    /\ Len(qf.filters) > 0
    /\ qf' = [qf EXCEPT !.filters = <<>>, !.nq = 0]
    /\ qfRet' = [QfRetZero EXCEPT !.op = "init", !.enq = qfRet.enq]
    /\ UNCHANGED notQfVars

----------------------------------------------------------------------------
(* The window with its contents: copyBytes and bytes (decode_reader.go) *)

MaxCbOps == 4                 \* window operations in one behaviour
CbGaps == {0, 2, 4}           \* window bytes left before the wrap at the start
CbLens == {1, 3, 5}           \* lengths of copyBytes
CbOffs == {1, 2, 4, minWindowSize}   \* offsets of copyBytes
CbLiterals == {7, 8}          \* bytes written by writeByte

\* the byte at position pos of the decoded stream before the model starts
Val(pos) == (pos * 3 + pos \div 2) % 7

\* The window buffer is the list mem of the writes <<index, byte>> made to it
\* over what it held at the start: with the write index at w0, the indices
\* below w0 hold the stream positions of the current pass over the window, the
\* others those of the pass before.
BasePos(j, w0) == IF j < w0 THEN minWindowSize + j ELSE j

RECURSIVE ReadMem(_, _, _, _)
\* w.buf[j]: the last of the first k writes that went to index j, or the start value
ReadMem(mem, k, j, w0) ==
    IF k = 0 THEN Val(BasePos(j, w0))
    ELSE IF mem[k][1] = j THEN mem[k][2]
    ELSE ReadMem(mem, k - 1, j, w0)

BufAt(c, j) == ReadMem(c.mem, Len(c.mem), j, c.w0)

\* copy(w.buf[dst:], w.buf[src:src+n]) for n bytes: the source is read as it was
\* before the call
MoveBytes(c, dst, src, n) ==
    c.mem \o [k \in 1..n |-> <<dst + k - 1, BufAt(c, src + k - 1)>>]

\* the bytewise loop read from the buffer as it was before the loop
ForwardStale(c, dst, src, n) == MoveBytes(c, dst, src, n)

RECURSIVE ForwardBytes(_, _, _, _)
\* n times w.buf[dst] = w.buf[src]; dst++; src++
ForwardBytes(c, dst, src, n) ==
    IF n = 0 THEN c.mem
    ELSE ForwardBytes([c EXCEPT !.mem = Append(@, <<dst, BufAt(c, src)>>)],
                      dst + 1, src + 1, n - 1)

\* n := copy(w.buf[w.w:], w.buf[i:iend]); w.w += n; w.l -= n
CcSeg(c, i, iend) ==
    [c EXCEPT !.win = CopySeg(c.win, i, iend),
              !.mem = MoveBytes(c, c.win.w, i, Min(c.win.size - c.win.w, iend - i))]

\* the bytewise loop "for w.l > 0 && w.w < w.size" of copyBytes
CcLoop(c, i) ==
    [c EXCEPT !.win = CopyLoop(c.win),
              !.mem = ForwardBytes(c, c.win.w, i, Max(0, Min(c.win.l, c.win.size - c.win.w)))]

\* copyBytes from "if iend <= w.w" on
CcTail(c, i, iend) ==
    IF iend <= c.win.w THEN CcSeg(c, i, iend) ELSE CcLoop(c, i)

\* copyBytes after the first segment
CcAfterFirst(c) ==
    IF c.win.l = 0 THEN c ELSE CcTail(c, 0, c.win.l)

\* copyBytes once w.l and w.o are set
CcFrom(c, i, iend) ==
    IF i > c.win.w
    THEN CcAfterFirst(CcSeg(c, i, IF iend > c.win.size THEN c.win.size ELSE iend))
    ELSE CcTail(c, i, iend)

\* copyBytes(length, offset) on the window and its contents
copyBytesMem(c, length, offset) ==
    CcFrom([c EXCEPT !.win.l = AndMask(length, c.win.mask), !.win.o = offset],
           AndMask(c.win.w - offset, c.win.mask),
           AndMask(c.win.w - offset, c.win.mask) + AndMask(length, c.win.mask))

\* the bytes of w.buf[lo:hi]
BufSlice(c, lo, hi) == [k \in 1..(hi - lo) |-> BufAt(c, lo + k - 1)]

\* bytes() after the pending copy has been resumed: the slice is handed out
CcSlice(c) ==
    [c EXCEPT !.win = BytesSlice(c.win).win,
              !.out = @ \o BufSlice(c, c.win.r, c.win.w)]

\* bytes() on the window and its contents
bytesMem(c) ==
    CcSlice(IF c.win.l > 0 /\ c.win.w < c.win.size
            THEN copyBytesMem(c, c.win.l, c.win.o) ELSE c)

\* The unbounded copy: exp lists the bytes that follow the start of the model
\* in the decoded stream, whose position there is minWindowSize + w0.
StreamAt(c, q) ==
    IF q < minWindowSize + c.w0 THEN Val(q) ELSE c.exp[q - (minWindowSize + c.w0) + 1]

RECURSIVE RefCopy(_, _, _)
\* length times: the next byte of the stream is the byte offset positions back
RefCopy(c, length, offset) ==
    IF length = 0 THEN c.exp
    ELSE RefCopy([c EXCEPT !.exp = Append(@, StreamAt(c, minWindowSize + c.w0 + Len(c.exp) - offset))],
                 length - 1, offset)

\* win, mem: the window and the writes to its buffer; w0: the write index at the
\* start; out: the bytes handed out by bytes(); exp: the bytes of the stream
\* decoded so far; ops, pend: the operations made and whether a copyBytes has
\* returned with bytes left to copy
CbZero(gap) ==
    [win |-> [reset(WindowZero, 18, TRUE) EXCEPT
                 !.w = IF gap = 0 THEN 0 ELSE minWindowSize - gap,
                 !.r = IF gap = 0 THEN 0 ELSE minWindowSize - gap],
     mem |-> <<>>, w0 |-> IF gap = 0 THEN 0 ELSE minWindowSize - gap,
     out |-> <<>>, exp |-> <<>>, ops |-> 0, pend |-> FALSE]

InitCbIdle == cb = [CbZero(0) EXCEPT !.win = WindowZero]

\* decodeReader.init has reset the window
InitCb == \E gap \in CbGaps : cb = CbZero(gap)

\* the decoder writes a literal; it writes only while available() > 0 and is
\* called only after bytes() has returned nothing, when no copy is pending
CbWriteByte ==
    /\ cb.ops < MaxCbOps
    /\ cb.win.l = 0 /\ available(cb.win) > 0
    /\ \E b \in CbLiterals :
          cb' = [cb EXCEPT !.win = writeByte(cb.win), !.mem = Append(@, <<cb.win.w, b>>),
                           !.exp = Append(@, b), !.ops = @ + 1]
    /\ UNCHANGED notCbVars

\* the decoder copies a match
CbCopyBytes ==
    /\ cb.ops < MaxCbOps
    /\ cb.win.l = 0 /\ available(cb.win) > 0
    /\ \E length \in CbLens, offset \in CbOffs :
          \E c \in {copyBytesMem(cb, length, offset)} :
              cb' = [c EXCEPT !.exp = RefCopy(cb, length, offset), !.ops = @ + 1,
                              !.pend = @ \/ c.win.l > 0]
    /\ UNCHANGED notCbVars

\* readBytes drains the window
CbBytes ==
    /\ cb.ops < MaxCbOps
    /\ cb' = [bytesMem(cb) EXCEPT !.ops = @ + 1]
    /\ UNCHANGED notCbVars

----------------------------------------------------------------------------
(* Bit reader with a bit limit: src/unnamed/part_000 rar5BitReader *)

MaxLbOps == 5                 \* calls in one behaviour
LbSrcLens == {1, 3, 4}        \* bytes the inner byteReader holds
LbChunks == {1, 3}            \* bytes one bytes() call of the inner reader returns at most
LbLimits == {0, 8, 12, 20}    \* n of setLimit
LbAsks == {1, 4, 7, 13}       \* n of readBits

\* byte i (from 0) of the inner byteReader
LbSrcByte(i) == (i * 37 + 11) % 256

\* bit j (from 0) of the inner byteReader, most significant bit of a byte first
LbSrcBit(j) == NatBits(LbSrcByte(j \div 8), 8)[(j % 8) + 1]

\* r.r.bytes(): the next bytes of the inner reader, io.EOF when it has none left
srcBytes(r) ==
    IF r.at >= r.srclen THEN [b |-> <<>>, err |-> "EOF"]
    ELSE [b |-> [i \in 1..Min(r.chunk, r.srclen - r.at) |-> LbSrcByte(r.at + i - 1)],
          err |-> "nil"]

\* r.v >>= bits on an int of IntSize bits
ShiftOut(v, bits) == [i \in 1..bits |-> v[1]] \o SubSeq(v, 1, IntSize - bits)

\* "r.v = r.v<<8 | int(r.b[0]); r.b = r.b[1:]; r.n += 8; r.l -= 8"
TakeByte(r) ==
    [r EXCEPT !.v = ShiftIn(r.v, Head(r.b)), !.b = Tail(r.b), !.n = @ + 8, !.l = @ - 8]

\* mutant: the bits read beyond the limit stay in the cache
DiscardNone(r) == [r EXCEPT !.l = 0]

\* "overshot, discard the extra bits" for r.l < 0
DiscardExtra(r) == [r EXCEPT !.l = 0, !.v = ShiftOut(r.v, 0 - r.l), !.n = @ + r.l]

RECURSIVE fillCache(_)
\* the loop "for len(r.b) > 0 && r.n <= intSize-8" of readBits
fillCache(r) ==
    IF Len(r.b) > 0 /\ r.n <= IntSize - 8
    THEN IF TakeByte(r).l < 0 THEN DiscardExtra(TakeByte(r))
         ELSE IF TakeByte(r).l = 0 THEN TakeByte(r)
         ELSE fillCache(TakeByte(r))
    ELSE r

\* readBits returns: the reader, the bits read, the error
LbResult(r, val, err) == [r |-> r, val |-> val, err |-> err]

RECURSIVE rar5ReadBits(_, _)
\* rar5BitReader.readBits(n)
rar5ReadBits(r, n) ==
    IF n > r.n
    THEN IF r.l = 0 THEN LbResult(r, <<>>, "EOF")
         ELSE IF Len(r.b) = 0
         THEN IF srcBytes(r).err # "nil" THEN LbResult(r, <<>>, "errDecoderOutOfData")
              ELSE rar5ReadBits(fillCache([r EXCEPT !.b = srcBytes(r).b,
                                                    !.at = @ + Len(srcBytes(r).b)]), n)
         ELSE rar5ReadBits(fillCache(r), n)
    ELSE LbResult([r EXCEPT !.n = @ - n], CacheBits(r.v, r.n - n, n), "nil")

\* rar5BitReader.setLimit(n)
setLimit(r, n) == [r EXCEPT !.l = n, !.n = 0]

\* bytes the reader has taken out of the slices of the inner reader
LbTaken(r) == r.at - Len(r.b)

\* the reader after reset(br) on an inner reader of srclen bytes; at counts the
\* bytes bytes() has returned; limit, start and got are the n of the last setLimit,
\* LbTaken when it was called and the bits readBits has returned since
LbZero(srclen, chunk) ==
    [v |-> Zeros(IntSize), n |-> 0, l |-> 0, b |-> <<>>, at |-> 0, srclen |-> srclen,
     chunk |-> chunk, limit |-> 0, start |-> 0, got |-> 0, ops |-> 0]

\* what the last call was: n asked, r.l and r.n when it was called, its answer
LbRetZero == [op |-> "reset", ask |-> 0, l0 |-> 0, n0 |-> 0, val |-> <<>>, err |-> "nil"]

InitLbIdle == lb = LbZero(0, 1) /\ lbRet = LbRetZero

InitLb ==
    /\ lb \in {LbZero(s, c) : s \in LbSrcLens, c \in LbChunks}
    /\ lbRet = LbRetZero

LbSetLimit ==
    /\ lb.ops < MaxLbOps
    /\ \E n \in LbLimits :
          /\ lb' = [setLimit(lb, n) EXCEPT !.limit = n, !.start = LbTaken(lb), !.got = 0,
                                           !.ops = @ + 1]
          /\ lbRet' = [LbRetZero EXCEPT !.op = "setLimit", !.ask = n]
    /\ UNCHANGED notLbVars

LbReadBits ==
    /\ lb.ops < MaxLbOps
    /\ \E n \in LbAsks :
          \E res \in {rar5ReadBits(lb, n)} :
              /\ lb' = [res.r EXCEPT !.got = @ + Len(res.val), !.ops = @ + 1]
              /\ lbRet' = [op |-> "readBits", ask |-> n, l0 |-> lb.l, n0 |-> lb.n,
                           val |-> res.val, err |-> res.err]
    /\ UNCHANGED notLbVars

----------------------------------------------------------------------------
(* Specifications *)

\* each specification runs one component; the others stay in their zero state
NextNames == ApplyNextNew \/ ApplyNextOld
StartNames == InitNames /\ InitBitsIdle /\ InitWinIdle /\ InitDrIdle /\ InitPkIdle /\ InitCkIdle /\ InitCiIdle /\ InitVlIdle /\ InitVmIdle /\ InitSdIdle /\ InitLmIdle /\ InitQfIdle /\ InitCbIdle /\ InitLbIdle
SpecNames == StartNames /\ [][NextNames]_vars

NextBits == BitsSkip \/ BitsReadUint32
StartBits == InitBits /\ InitNamesIdle /\ InitWinIdle /\ InitDrIdle /\ InitPkIdle /\ InitCkIdle /\ InitCiIdle /\ InitVlIdle /\ InitVmIdle /\ InitSdIdle /\ InitLmIdle /\ InitQfIdle /\ InitCbIdle /\ InitLbIdle
SpecBits == StartBits /\ [][NextBits]_vars

NextWin == WinReset \/ WinWriteByte \/ WinCopyBytes \/ WinBytes
StartWin == InitWin /\ InitNamesIdle /\ InitBitsIdle /\ InitDrIdle /\ InitPkIdle /\ InitCkIdle /\ InitCiIdle /\ InitVlIdle /\ InitVmIdle /\ InitSdIdle /\ InitLmIdle /\ InitQfIdle /\ InitCbIdle /\ InitLbIdle
SpecWin == StartWin /\ [][NextWin]_vars

NextDr == DrReadBytes \/ DrFill \/ DrFillEOF
StartDr == InitDr /\ InitNamesIdle /\ InitBitsIdle /\ InitPkIdle /\ InitCkIdle /\ InitCiIdle /\ InitVlIdle /\ InitVmIdle /\ InitSdIdle /\ InitLmIdle /\ InitQfIdle /\ InitCbIdle /\ InitLbIdle
SpecDr == StartDr /\ [][NextDr]_vars

NextPk == PkRead \/ PkNextFile \/ PkReadNextBlock \/ PkSkipNextBlock \/ PkGetNextBlock
StartPk == InitPk /\ InitNamesIdle /\ InitBitsIdle /\ InitWinIdle /\ InitDrIdle /\ InitCkIdle /\ InitCiIdle /\ InitVlIdle /\ InitVmIdle /\ InitSdIdle /\ InitLmIdle /\ InitQfIdle /\ InitCbIdle /\ InitLbIdle
SpecPk == StartPk /\ [][NextPk]_vars

NextCk == CkRead \/ CkReadByte
StartCk == InitCk /\ InitNamesIdle /\ InitBitsIdle /\ InitWinIdle /\ InitDrIdle /\ InitPkIdle /\ InitCiIdle /\ InitVlIdle /\ InitVmIdle /\ InitSdIdle /\ InitLmIdle /\ InitQfIdle /\ InitCbIdle /\ InitLbIdle
SpecCk == StartCk /\ [][NextCk]_vars

NextCipher == CiRead \/ CiReadByte \/ CiSeek
StartCipher ==
    InitCi /\ InitNamesIdle /\ InitBitsIdle /\ InitWinIdle /\ InitDrIdle /\ InitPkIdle /\ InitCkIdle /\ InitVlIdle /\ InitVmIdle /\ InitSdIdle /\ InitLmIdle /\ InitQfIdle /\ InitCbIdle /\ InitLbIdle
SpecCipher == StartCipher /\ [][NextCipher]_vars

NextVol ==
    \/ VlOpenReader \/ VlNewReader \/ VlFileOpen
    \/ VlNextBlock \/ VlOpenNext \/ VlParse \/ VlClose
StartVol ==
    /\ InitVl /\ InitNamesIdle /\ InitBitsIdle /\ InitWinIdle /\ InitDrIdle /\ InitPkIdle
    /\ InitCkIdle /\ InitCiIdle /\ InitVmIdle /\ InitSdIdle /\ InitLmIdle /\ InitQfIdle /\ InitCbIdle /\ InitLbIdle
SpecVol == StartVol /\ [][NextVol]_vars

NextVm ==
    \E p \in VmHandles :
        \/ VmCall(p) \/ VmLock(p) \/ VmCached(p) \/ VmLast(p)
        \/ VmTryNew(p) \/ VmTryOld(p) \/ VmLoop(p) \/ VmUnlock(p)
StartVm ==
    /\ InitVm /\ InitNamesIdle /\ InitBitsIdle /\ InitWinIdle /\ InitDrIdle /\ InitPkIdle
    /\ InitCkIdle /\ InitCiIdle /\ InitVlIdle /\ InitSdIdle /\ InitLmIdle /\ InitQfIdle /\ InitCbIdle /\ InitLbIdle
SpecVm == StartVm /\ [][NextVm]_vars

NextSolid == SdNext \/ SdRead
StartSolid ==
    /\ InitSd /\ InitNamesIdle /\ InitBitsIdle /\ InitWinIdle /\ InitDrIdle /\ InitPkIdle
    /\ InitCkIdle /\ InitCiIdle /\ InitVlIdle /\ InitVmIdle /\ InitLmIdle /\ InitQfIdle /\ InitCbIdle /\ InitLbIdle
SpecSolid == StartSolid /\ [][NextSolid]_vars

NextLm == LmRead \/ LmReadByte
StartLm ==
    /\ InitLm /\ InitNamesIdle /\ InitBitsIdle /\ InitWinIdle /\ InitDrIdle /\ InitPkIdle
    /\ InitCkIdle /\ InitCiIdle /\ InitVlIdle /\ InitVmIdle /\ InitSdIdle /\ InitQfIdle /\ InitCbIdle /\ InitLbIdle
SpecLm == StartLm /\ [][NextLm]_vars

NextQf == QfEnqueue \/ QfClear
StartQf ==
    /\ InitQf /\ InitNamesIdle /\ InitBitsIdle /\ InitWinIdle /\ InitDrIdle /\ InitPkIdle
    /\ InitCkIdle /\ InitCiIdle /\ InitVlIdle /\ InitVmIdle /\ InitSdIdle /\ InitLmIdle /\ InitCbIdle /\ InitLbIdle
SpecQf == StartQf /\ [][NextQf]_vars

NextCb == CbWriteByte \/ CbCopyBytes \/ CbBytes
StartCb ==
    /\ InitCb /\ InitNamesIdle /\ InitBitsIdle /\ InitWinIdle /\ InitDrIdle /\ InitPkIdle
    /\ InitCkIdle /\ InitCiIdle /\ InitVlIdle /\ InitVmIdle /\ InitSdIdle /\ InitLmIdle
    /\ InitQfIdle /\ InitLbIdle
SpecCb == StartCb /\ [][NextCb]_vars

NextLb == LbSetLimit \/ LbReadBits
StartLb ==
    /\ InitLb /\ InitNamesIdle /\ InitBitsIdle /\ InitWinIdle /\ InitDrIdle /\ InitPkIdle
    /\ InitCkIdle /\ InitCiIdle /\ InitVlIdle /\ InitVmIdle /\ InitSdIdle /\ InitLmIdle
    /\ InitQfIdle /\ InitCbIdle
SpecLb == StartLb /\ [][NextLb]_vars

----------------------------------------------------------------------------
(* Properties of the volume names *)

\* the maximal digit runs of s, as pairs <<first, last>> of 1-indexed positions
RunStart(s, i) == IsDigit(s[i]) /\ (i = 1 \/ ~IsDigit(s[i - 1]))
RunEnd(s, i)   == IsDigit(s[i]) /\ (i = Len(s) \/ ~IsDigit(s[i + 1]))
Runs(s) == {<<i, j>> \in (1..Len(s)) \X (1..Len(s)) :
               i <= j /\ RunStart(s, i) /\ RunEnd(s, j) /\ \A k \in i..j : IsDigit(s[k])}
LastRun(s) == CHOOSE r \in Runs(s) : \A q \in Runs(s) : q[1] <= r[1]
PrevRun(s) == CHOOSE r \in Runs(s) \ {LastRun(s)} :
                 \A q \in Runs(s) \ {LastRun(s)} : q[1] <= r[1]

\* name.part<N>of<M>.rar style: two runs or more, no '.' between the last two and
\* a '.' before the first of them
PartOfStyle(s) ==
    /\ Cardinality(Runs(s)) >= 2
    /\ ~\E k \in (PrevRun(s)[2] + 1)..(LastRun(s)[1] - 1) : s[k] = ChDot
    /\ \E k \in 1..(PrevRun(s)[1] - 1) : s[k] = ChDot

VolRun(s) == IF PartOfStyle(s) THEN PrevRun(s) ELSE LastRun(s)

\* s with run r replaced by its decimal value plus k, zero-padded to the run's width
RunPlus(s, r, k) ==
    SubSeq(s, 1, r[1] - 1)
    \o ZeroPad(Itoa(Atoi(SubSeq(s, r[1], r[2])) + k), r[2] - r[1] + 1)
    \o SubSeq(s, r[2] + 1, Len(s))

\* C7 as stated: k applications of nextNewVolName increment the LAST digit run by
\* k, zero-padded to its width, every other character unchanged.
Cex_C7 == scheme = "new" => name = RunPlus(name0, LastRun(name0), napplied)

\* C7 amended: k applications of nextNewVolName increment by k the volume-number
\* run, which is the second-to-last digit run when the name has the
\* name.part<N>of<M> shape (no '.' between the last two runs, a '.' before them)
\* and the last digit run otherwise; the run is zero-padded to at least its
\* original width and every other character is unchanged.
Thm_C7 == scheme = "new" => name = RunPlus(name0, VolRun(name0), napplied)

\* a name of the part<N>of<M> shape whose volume number has carried into a wider run
Wit_C7 ==
    /\ scheme = "new" /\ napplied = 2
    /\ PartOfStyle(name0)
    /\ Len(name) > Len(name0)

\* C8: starting from <stem>.r00, k applications of nextOldVolName give the
\* extension whose last two characters are the decimal counter k mod 100 and whose
\* first character is 'r' advanced by k div 100 (.r01 ... .r99, .s00 ...), with
\* the stem unchanged, and the name differs from every earlier one.
Thm_C8 ==
    scheme = "old" =>
        /\ name = SubSeq(name0, 1, Len(name0) - 3)
                  \o <<ExtR00[1] + (napplied \div 100),
                       Ch0 + ((napplied \div 10) % 10),
                       Ch0 + (napplied % 10)>>
        /\ name \notin seen

\* the carry out of .r99 has produced .s00
Wit_C8 ==
    /\ scheme = "old" /\ napplied = 100
    /\ SubSeq(name, Len(name) - 2, Len(name)) = <<ExtR00[1] + 1, Ch0, Ch0>>

----------------------------------------------------------------------------
(* Properties of the bit reader *)

TableForms == {"p00", "p01", "p10w8", "p11w16"}
CodeForms  == {"p00", "p01", "p10w16", "p11w32"}

RoundTrips == brErr = "nil" /\ brOut = U32(NatBits(brX, 16))

\* C9 as stated: an x <= 2^16 - 1 encoded by the table (00 + 4 bits, 10 + 8 bits,
\* 11 + 16 bits, 01 + h/l) is decoded by readUint32 to x, without error.
Cex_C9 == (brPc = "done" /\ brForm \in TableForms) => RoundTrips

\* C9 amended: an x <= 2^16 - 1 encoded as 00 + 4 bits, 01 + h/l, 10 + 16 bits or
\* 11 + 32 bits is decoded by readUint32 to x, and decoding a complete encoding
\* returns no error.
Thm_C9 == (brPc = "done" /\ brForm \in CodeForms) => RoundTrips

\* the 32-bit form has been decoded from a stream that does not start on a byte
\* boundary
Wit_C9 ==
    /\ brPc = "done" /\ brForm = "p11w32" /\ brX = 65535 /\ brSkip = 3
    /\ brErr = "nil"

----------------------------------------------------------------------------
(* Properties of the window *)

IsPow2(n) == \E k \in 0..30 : n = Pow2(k)

\* C3 as stated: buffered() + available() == size after every operation.
Cex_C3 == buffered(win) + available(win) = win.size

\* C3 amended: after every operation buffered() and available() are both
\* non-negative and buffered() + available() == size - r, so the sum is size only
\* while r == 0 (nothing has been drained since the last wrap or clearing reset).
Thm_C3 ==
    /\ buffered(win) >= 0
    /\ available(win) >= 0
    /\ buffered(win) + available(win) = win.size - win.r

\* bytes() has drained a window that has not wrapped
Wit_C3 ==
    /\ winLast = "bytes" /\ win.r > 0 /\ win.r < win.size
    /\ buffered(win) + available(win) < win.size

\* C4: once reset has been called, whatever the log2size and clear arguments of
\* the calls, size is a power of two, at least minWindowSize, and mask == size - 1.
Thm_C4 ==
    winLast # "new" =>
        /\ IsPow2(win.size)
        /\ win.size >= minWindowSize
        /\ win.mask = win.size - 1
        /\ win.buflen = win.size

\* a second reset asked for less than the current size after a growing reset that
\* kept the old contents
Wit_C4 ==
    /\ winLast = "reset" /\ winOps >= 3
    /\ win.size = 2 * minWindowSize
    /\ win.w = minWindowSize

\* the indices stay inside the buffer and in order
WinInOrder == 0 <= win.r /\ win.r <= win.w /\ win.w <= win.size

\* a step of writeByte, copyBytes or bytes that moves the write index back is a
\* bytes() that found it at the end of the buffer, perhaps after resuming a
\* copy, returned everything from the read index to the end and put both
\* indices to 0
WinWrapStep ==
    (winLast' # "reset" /\ win'.w < win.w) =>
        /\ winLast' = "bytes"
        /\ win'.w = 0 /\ win'.r = 0
        /\ bytes(win).n = win.size - win.r

\* C31: over any sequence of reset, writeByte, copyBytes and bytes calls
\* 0 <= r <= w <= size holds, so no write lands outside the buffer, and the
\* write index goes back to 0 only in a bytes() that returns all buffered bytes.
Thm_C31 == []WinInOrder /\ [][WinWrapStep]_vars

\* a copy has stopped at the end of the buffer with bytes left to copy, and
\* bytes() has handed out the buffer and wrapped
Wit_C31 ==
    /\ winLast = "bytes" /\ win.w = 0 /\ win.r = 0 /\ win.l > 0 /\ winOps >= 3

----------------------------------------------------------------------------
(* Properties of the filter queue *)

\* C5: the filters run in insertion order, each at the output offset (total bytes
\* delivered) and with the buffer length that was supplied when it was queued.
\* Supplied offsets and lengths are below the window size and non-decreasing.
Cex_C5 ==
    \A i \in 1..Len(dr.fired) :
        /\ dr.fired[i].at = dr.fired[i].abs
        /\ dr.fired[i].len = dr.fired[i].len0
        /\ i > 1 => dr.fired[i - 1].id < dr.fired[i].id

\* C29 as stated, for the byte counts (filters keep the length of their
\* input): as long as no error other than io.EOF was returned, the bytes
\* delivered and the bytes still held by the reader and the window add up to the
\* bytes decoded, so that at io.EOF the total delivered is the total decoded.
Cex_C29 ==
    (drPc = "idle" /\ dr.fatal = "nil") =>
        dr.tot + dr.out + dr.buf + dr.winbuf + buffered(win) = dr.decoded

\* readBytes has just returned from the call in which processFilters refused
\* a filter (the next call delivers the output of the filter that ran)
JustRefused ==
    /\ drPc = "idle" /\ dr.refused # <<>>
    /\ dr.refused[Len(dr.refused)].at = dr.tot /\ dr.out > 0

\* C32: a filter runs over the output of the filter before it only if its
\* length is the length of that output (filters keep the length of their
\* input); when processFilters finds the next filter at relative offset 0 with
\* another length it does not run it, and readBytes returns errInvalidFilter.
Thm_C32 ==
    /\ \A i \in 1..Len(dr.fired) :
          dr.fired[i].chained =>
              /\ i > 1 /\ dr.fired[i].at = dr.fired[i - 1].at
              /\ dr.fired[i].flen = dr.fired[i - 1].len
              /\ dr.fired[i].len = dr.fired[i - 1].len
    /\ \A i \in 1..Len(dr.refused) : dr.refused[i].flen # dr.refused[i].len
    /\ JustRefused =>
          /\ drRet.err = "errInvalidFilter" /\ drRet.n = 0
          /\ dr.filters # <<>> /\ dr.filters[1].id = dr.refused[Len(dr.refused)].id
          /\ dr.filters[1].offset = 0 /\ dr.filters[1].length # dr.out

\* two filters of one length at one offset have run over one buffer and
\* readBytes has delivered from their output
Wit_C32 ==
    /\ Len(dr.fired) = 2 /\ dr.fired[2].chained /\ dr.refused = <<>>
    /\ drPc = "idle" /\ drRet.err = "nil" /\ drRet.n > 0

\* C33 as stated: the buffer a filter is run over holds window bytes that were
\* each taken off the window slices once: as many bytes as the buffer is long.
Cex_C33 ==
    \A i \in 1..Len(dr.fired) : dr.fired[i].src = dr.fired[i].len

\* C34: d.tot is the number of bytes readBytes has returned since init, and
\* every filter is run with no output waiting and with that number as its
\* offset: the place of the first byte of its output among the bytes returned.
Thm_C34 ==
    /\ dr.tot = dr.deliv
    /\ \A i \in 1..Len(dr.fired) :
          dr.fired[i].pre = 0 /\ dr.fired[i].at = dr.fired[i].deliv

\* a filter has run after bytes were returned, and bytes of its output have
\* been returned since
Wit_C34 ==
    /\ Len(dr.fired) >= 1 /\ dr.fired[1].at > 0
    /\ drPc = "idle" /\ dr.tot > dr.fired[1].at /\ dr.fatal = "nil"

\* C40 as stated: the stored offset of every queued filter is non-negative.
Cex_C40 ==
    \A i \in 1..Len(dr.filters) : dr.filters[i].offset >= 0

----------------------------------------------------------------------------
(* Properties of the packed file reader *)

\* C2: when a file has been read to io.EOF and no call since its nextFile
\* returned an error, the bytes Read returned add up to the sum of PackedSize
\* over the blocks of the file.
Thm_C2 ==
    (pkPc = "idle" /\ pkG.eof /\ ~pkG.err) => pkG.delivered = pkG.sum

\* a file of three blocks, with data in the first and the last, that starts in one
\* volume and ends in another has been read to io.EOF
Wit_C2 ==
    /\ pkPc = "idle" /\ pkG.eof /\ ~pkG.err /\ pkG.span
    /\ pkG.blocks = 3 /\ pk.h.packedOff = 2 /\ pk.h.size = 2 /\ pkG.delivered = 4
    /\ pkRet.op = "Read" /\ pkRet.err = "EOF"

\* C35: the packedOff of the block the reader is on is the sum of PackedSize over
\* the earlier blocks of the same file, and 0 for the first block of a file.
Thm_C35 ==
    pk.blk = "file" =>
        /\ pk.h.packedOff = pkG.sum - pk.h.size
        /\ pk.h.first => pk.h.packedOff = 0

\* the reader is on the third block of a file whose first two blocks hold data
Wit_C35 ==
    /\ pk.blk = "file" /\ ~pk.h.first /\ pk.h.packedOff = 4 /\ pkG.sum = 4 + pk.h.size
    /\ pkRet.op = "Read" /\ pkPc = "idle"

\* C10: no byte of a block that nextBlock refused with "invalid file block" (a
\* block after the first block of a file that has first = true or another name)
\* is ever returned by a Read of the file.
Cex_C10 == ~pkG.alien

\* the archive has ended (pk.end tells how) and the block of the current file
\* seen last has last = false, and the last call was a Read
PkCutShort ==
    pkPc = "idle" /\ pkRet.op = "Read" /\ pk.h # NoHeader /\ ~pk.h.last /\ pk.end # "no"

\* C11 as stated: when the archive ends, with no further block or with a next
\* volume that does not exist, while the last block seen of the current file has
\* last = false, Read fails with "unexpected end of archive".
Cex_C11 ==
    (PkCutShort /\ pk.end \in {"EOF", "ErrNotExist"}) => pkRet.err = "ErrUnexpectedArcEnd"

\* C11: when the archive ends while the last block seen of the current file has
\* last = false, Read fails with "unexpected end of archive" if the volume
\* reader reported the end of the archive (io.EOF: no further block, or no next
\* volume after an ambiguous end), and with the error of the volume reader
\* otherwise (a next volume that does not exist after a definite volume end);
\* Read returns io.EOF only when the current block has last = true.
Thm_C11 ==
    /\ PkCutShort =>
          pkRet.err = (IF pk.end = "EOF" THEN "ErrUnexpectedArcEnd" ELSE pk.end)
    /\ (pkRet.op = "Read" /\ pkRet.err = "EOF") => (pk.h = NoHeader \/ pk.h.last)

\* a file whose second block has last = false was read up to the end of the
\* archive: the bytes were delivered and the last Read failed
Wit_C11 ==
    /\ PkCutShort /\ pk.end = "EOF" /\ pkRet.err = "ErrUnexpectedArcEnd"
    /\ pkG.blocks = 2 /\ pkG.delivered = 4 /\ ~pkG.alien

\* C16: once readBytes has returned an error other than io.EOF, every later
\* call returns an error again: no data and no io.EOF.
Cex_C16 ==
    (drPc = "idle" /\ dr.fatal # "nil") => drRet.err \notin {"nil", "EOF"}

----------------------------------------------------------------------------
(* Properties of the checksum reader *)

\* the header of the current block, and whether the read of the file has ended:
\* the last call found the inner reader at its end
CkHeader == ck.hs[ck.idx]
CkEnded == ckRet.op # "new" /\ ckRet.n = 0 /\ ckRet.err \notin {"nil", "ErrShortFile"}

\* the sum of the delivered bytes: the hash, or with key k its folded HMAC
CkSumOf(k) ==
    IF Len(k) = 0 THEN Hash32(ckOut)
    ELSE IF Len(CkHeader.sum) = 4 THEN Fold(Mac(k, Hash32(ckOut)))
    ELSE Mac(k, Hash32(ckOut))

\* C6 as stated: the read of a file ends with "bad file checksum" if and only if
\* the sum of the delivered bytes differs from the declared sum, and with io.EOF
\* otherwise.
Cex_C6 ==
    CkEnded =>
        /\ ckRet.err = "ErrBadFileChecksum" <=> CkSumOf(CkHeader.hashKey) # CkHeader.sum
        /\ ckRet.err # "ErrBadFileChecksum" => ckRet.err = "EOF"

\* C6: when the last block of the file is not its first block and generating its
\* keys fails, the read ends with that error; in every other case it ends with
\* "bad file checksum" if the sum of the delivered bytes (the hash, or with a hash
\* key its HMAC, folded to 4 bytes when the declared sum has 4 bytes) differs
\* from the declared sum, and with io.EOF if it does not.
Thm_C6 ==
    CkEnded =>
        IF ~CkHeader.first /\ CkHeader.genKeys = "fail"
        THEN ckRet.err = "genKeysErr"
        ELSE /\ ckRet.err \in {"ErrBadFileChecksum", "EOF"}
             /\ ckRet.err = "ErrBadFileChecksum" <=> CkSumOf(CkHeader.hashKey) # CkHeader.sum
             /\ ck.hash = ckOut /\ ckOut = ck.data

\* a file of two blocks read in several calls has ended with io.EOF: its keyed,
\* folded sum matches the declared one
Wit_C6 ==
    /\ CkEnded /\ ckRet.err = "EOF"
    /\ Len(ck.hs) = 2 /\ ck.cut = 1 /\ Len(ckOut) = 3
    /\ CkHeader.genKeys = "ok" /\ Len(CkHeader.hashKey) > 0 /\ Len(CkHeader.sum) = 4

\* C24: a call returns "bad file checksum" only when the inner reader has
\* reported io.EOF in that call, with no bytes, after every byte of the file was
\* delivered and hashed; and the call in which the inner reader reports io.EOF
\* with no bytes is the one that returns the result of the comparison.
Thm_C24 ==
    /\ ckRet.err = "ErrBadFileChecksum" =>
          /\ ckRet.inner = "EOF" /\ ckRet.n = 0
          /\ ckOut = ck.data /\ ck.hash = ck.data
    /\ (ckRet.inner = "EOF" /\ ckRet.n = 0) =>
          ckRet.err \in {"EOF", "ErrBadFileChecksum", "genKeysErr"}
    /\ (ckRet.op # "new" /\ ckRet.n > 0) => ckRet.err = "nil"

\* three bytes with a wrong declared sum were delivered, the inner reader gave
\* io.EOF together with the last byte, and the call after it returned the error
Wit_C24 ==
    /\ ckRet.err = "ErrBadFileChecksum" /\ ckRet.op = "Read" /\ Len(ckOut) = 3
    /\ CkHeader.sum = <<0, 0, 0, 0>> /\ Len(ck.hs) = 1

----------------------------------------------------------------------------
(* Properties of the seekable cipher reader *)

\* C1 as stated: after Seek(p, SeekStart) every byte read is the plaintext byte
\* of its offset, counted from p, whatever reads or seeks happened before the
\* seek.
Cex_C1 == (ciG.seeked /\ ~ciG.err) => ciG.ok

\* C25 as stated: when the packed data does not end with a whole block, reads
\* (no Seek) deliver the plaintext of the whole blocks and the first error they
\* return is io.EOF, after all of it.
Cex_C25 ==
    (ci.end > WholeLen /\ ~ciG.sought) =>
        /\ ciG.ok
        /\ ciRet.err # "nil" => (ciRet.err = "EOF" /\ ciG.pos = Len(Plain))

\* C37 as stated: whatever the sizes of the Read calls and wherever ReadByte calls
\* come between them (no Seek), every byte delivered is the byte of the one-pass
\* CBC decryption at its position; here for data made of whole blocks.
Cex_C37 == (ci.end = WholeLen /\ ~ciG.sought) => ciG.ok

----------------------------------------------------------------------------
(* Properties of the volume *)

\* the last call was a nextBlock and it has returned
VlReturned == vlPc = "idle" /\ vlRet.op = "nextBlock"

\* C12: a nextBlock call in which the parser signalled the end of the volume and
\* the next volume was opened returns the block of the volume numbered one
\* higher for every volume end, with no error, and that volume's file is the one
\* held; when the parser signals the end of the archive the call returns io.EOF
\* and opens no volume after it.
Thm_C12 ==
    /\ (VlReturned /\ vlRet.sig = "block") =>
          /\ vlRet.err = "nil" /\ vlRet.volnum = vlRet.start + vlRet.opened
          /\ vl.num = vlRet.volnum
          /\ vlRet.opened > 0 => vl.cl = vlRet.volnum /\ vl.src = vlRet.volnum
    /\ (VlReturned /\ vlRet.sig = "EOF") =>
          /\ vlRet.err = "EOF" /\ vlRet.openErr = "nil"
          /\ vl.num = vlRet.start + vlRet.opened

\* one call went through two volume ends and returned a block of volume 2
Wit_C12 ==
    /\ VlReturned /\ vlRet.sig = "block" /\ vlRet.start = 0 /\ vlRet.opened = 2
    /\ vlRet.volnum = 2 /\ ~vlG.err

\* C13: when the parser has signalled the volume-or-archive end and opening the
\* next volume fails with "file not found", nextBlock returns io.EOF.
Thm_C13 ==
    (VlReturned /\ vlRet.mark = "errVolumeOrArchiveEnd" /\ vlRet.openErr = "ErrNotExist")
        => vlRet.err = "EOF"

\* blocks were returned, then the next volume was not found after the ambiguous end
Wit_C13 ==
    /\ VlReturned /\ vlRet.mark = "errVolumeOrArchiveEnd" /\ vlRet.openErr = "ErrNotExist"
    /\ vlRet.err = "EOF" /\ vlG.blocks = 2 /\ vlRet.opened = 1

\* C14: nextBlock returns io.EOF only when the parser signalled the end of the
\* archive or when the next volume was not found after the volume-or-archive
\* end; after a definite volume end every failure to open the next volume, file
\* not found included, is returned as it is and not as io.EOF.
Thm_C14 ==
    /\ (VlReturned /\ vlRet.err = "EOF") =>
          \/ vlRet.sig = "EOF"
          \/ vlRet.mark = "errVolumeOrArchiveEnd" /\ vlRet.openErr = "ErrNotExist"
    /\ (VlReturned /\ vlRet.mark = "errVolumeEnd" /\ vlRet.openErr # "nil") =>
          vlRet.err = vlRet.openErr /\ vlRet.err # "EOF"

\* the next volume was not found after a definite volume end
Wit_C14 ==
    /\ VlReturned /\ vlRet.mark = "errVolumeEnd" /\ vlRet.openErr = "ErrNotExist"
    /\ vlRet.err = "ErrNotExist" /\ vlG.blocks = 1

VlHandles ==
    /\ vlG.peak <= 1
    /\ vlPc \in {"new", "idle", "dead", "closed"} => (vl.cl = -1 <=> vlG.open = 0)
    /\ vlPc \in {"dead", "closed"} => vlG.open = 0
    /\ (VlReturned /\ vlRet.openErr # "nil") => vlG.open = 0

\* C17 as stated: at most one file handle is held, the previous one is closed
\* before the next is held, and none is held after Close and after every fatal
\* error, fatal errors of nextBlock included.
Cex_C17 ==
    /\ VlHandles
    /\ (VlReturned /\ vlRet.err \notin {"nil", "EOF"}) => vlG.open = 0

\* C17: at most one file handle is held, the previous one is closed before the
\* next is held, and none is held after Close, after a failed volume init, a
\* failed offset open, a failed chain construction and a failed opening of the
\* next volume; after another error of nextBlock the handle stays held until
\* Close.
Thm_C17 ==
    /\ VlHandles
    /\ (vlPc = "idle" /\ vl.cl # -1) => (vl.cl = vl.num /\ vl.src = vl.num)
    /\ (vlPc = "idle" /\ vl.vm /\ ~vlG.err) => vlG.open = 1

\* three volumes were opened one after the other and the reader was closed
Wit_C17 ==
    /\ vlPc = "closed" /\ vlG.tries = 3 /\ vl.num = 2 /\ vlG.peak = 1 /\ vlG.open = 0
    /\ vlG.blocks = 3 /\ ~vlG.err

\* C19: File.Open on a file marked solid fails with "solid open not supported",
\* no volume file has been opened and no reader is made.
Thm_C19 ==
    (vlRet.op = "FileOpen" /\ vlRet.solid) =>
        /\ vlRet.err = "ErrSolidOpen" /\ vlPc = "dead"
        /\ vlG.tries = 0 /\ vlG.open = 0 /\ vl = VolumeZero

\* File.Open was refused for a solid file
Wit_C19 == vlRet.op = "FileOpen" /\ vlRet.solid /\ vlRet.err = "ErrSolidOpen" /\ vlPc = "dead"

\* C38 as stated: opening a volume whose header declares a number other than
\* the one it is opened as fails with ErrBadVolumeNumber, and no block is ever
\* returned out of a volume that was refused that way.
Cex_C38 ==
    /\ (VlReturned /\ vlRet.openErr = "ErrBadVolumeNumber") =>
          vlRet.err = "ErrBadVolumeNumber" /\ vlRet.volnum = -1
    /\ (VlReturned /\ vlRet.err = "nil") => vl.src \notin vlG.refused

----------------------------------------------------------------------------
(* Properties of the volume manager *)

\* C18: whenever a File handle is at a statement that reads or writes vm.files
\* or vm.old it holds vm.mu, so no two handles are at such a statement at once.
Thm_C18 ==
    /\ \A p \in VmHandles : vmPc[p] \in VmAccessPcs => vm.mu = p
    /\ \A p, q \in VmHandles :
          (p # q /\ vmPc[p] \in VmAccessPcs) => vmPc[q] \notin VmAccessPcs

\* one handle appends names for volume 2 while another waits for the mutex to
\* do the same
Wit_C18 ==
    \E p, q \in VmHandles :
        /\ p # q /\ vmPc[p] = "loop" /\ vmPc[q] = "lock"
        /\ vmVol[p] = 2 /\ vmVol[q] = 2 /\ Len(vm.files) = 2

\* the naming scheme in use: "old" once vm.old is set, "new" once a name was
\* derived with vm.old unset, "none" before
SchemeOf(v) == IF v.old THEN "old" ELSE IF Len(v.files) >= 2 THEN "new" ELSE "none"

\* C26 as stated: with no digit in the first name the old scheme is chosen;
\* otherwise the new scheme is tried, and the old scheme is the chosen one
\* exactly when the file of the new scheme did not exist.
Cex_C26 ==
    SchemeOf(vm) # "none" =>
        IF ~vm.digits THEN SchemeOf(vm) = "old"
        ELSE /\ vm.newOpen # "none"
             /\ SchemeOf(vm) = "old" <=> vm.newOpen = "ErrNotExist"

\* the choice of C26 once the old-naming mark of the archive is counted in
SchemeChoice ==
    /\ (vm.flag \/ ~vm.digits) => vm.newOpen = "none"
    /\ SchemeOf(vm) = "old" => (vm.flag \/ ~vm.digits \/ vm.newOpen = "ErrNotExist")
    /\ SchemeOf(vm) = "new" => (~vm.flag /\ vm.digits /\ vm.newOpen \in {"ok", "err"})
    /\ \A i \in 2..Len(vm.files) : vm.files[i] = SchemeOf(vm)

\* C26: the old scheme is chosen when the archive is marked as using old names
\* or the first name has no digit, without the new scheme being tried; otherwise
\* the new scheme is tried and the old scheme is chosen only if the file of the
\* new scheme does not exist; every later name is derived by the chosen scheme,
\* and a chosen scheme never changes.
Thm_C26 ==
    /\ []SchemeChoice
    /\ [][SchemeOf(vm) # "none" => SchemeOf(vm') = SchemeOf(vm)]_vars

\* the file of the new scheme did not exist, the old scheme was taken and has
\* derived the name of volume 2 as well
Wit_C26 ==
    /\ Len(vm.files) = 3 /\ vm.digits /\ ~vm.flag /\ vm.newOpen = "ErrNotExist"
    /\ vm.files[3] = "old" /\ 2 \in vm.opened

\* C28 as stated: when no call of openVolumeFile is under way and the volumes
\* were asked for in order, the names Volumes() returns (vm.files) are the
\* names of volumes whose file was opened successfully.
Cex_C28 ==
    ((\A p \in VmHandles : vmPc[p] = "idle") /\ vm.inOrder) =>
        \A i \in 1..Len(vm.files) : (i - 1) \in vm.opened

\* vm.files after a step begins with vm.files before it
FilesGrow ==
    /\ Len(vm'.files) >= Len(vm.files)
    /\ SubSeq(vm'.files, 1, Len(vm.files)) = vm.files

\* an Open for a volume number that had a name listed opened the name listed
\* under that number
OpenListed == vm.last.listed => vm.last.idx = vm.last.vol

\* C39: no step removes or changes a name of vm.files, names are only appended,
\* and every Open for a volume number that has a name listed opens the name
\* listed under that number, whichever handle asks.
Thm_C39 == []OpenListed /\ [][FilesGrow]_vars

\* three names are listed and a handle has opened the name of volume 1 again
\* while the other handle is inside openVolumeFile
Wit_C39 ==
    /\ Len(vm.files) = 3 /\ vm.last.listed /\ vm.last.vol = 1 /\ vm.last.idx = 1
    /\ 1 \in vm.opened /\ \E p \in VmHandles : vmPc[p] = "lock"

----------------------------------------------------------------------------
(* Properties of the Reader over a solid archive *)

\* the dictionary after the files 1..k have been read fully, one after another
RECURSIVE RefDict(_, _, _)
RefDict(fs, arcSolid, k) ==
    IF k = 0 THEN <<>>
    ELSE IF fs[k].comp
    THEN DecodeSeq(IF arcSolid /\ k > 1 THEN RefDict(fs, arcSolid, k - 1) ELSE <<>>,
                   k, 0, fs[k].len)
    ELSE RefDict(fs, arcSolid, k - 1)

\* the plaintext of file k when all files are read fully in sequence
RefPlain(fs, arcSolid, k) ==
    IF fs[k].comp THEN LastBytes(RefDict(fs, arcSolid, k), fs[k].len)
    ELSE [i \in 1..fs[k].len |-> Packed(k, i - 1)]

\* C20: when Next has fetched a header in a solid archive and the file before
\* it is compressed, the whole plaintext of that file had been decoded, whatever
\* the caller had read of it; and the bytes Read returns for a file are the
\* bytes it has when every file is read fully in sequence.
Thm_C20 ==
    /\ (sdRet.op = "Next" /\ sdRet.err = "nil" /\ sd.arcSolid /\ sdG.prev > 0
          /\ sd.files[sdG.prev].comp) => sdG.drained = sd.files[sdG.prev].len
    /\ sd.cur > 0 =>
          sdG.out = SubSeq(RefPlain(sd.files, sd.arcSolid, sd.cur), 1, Len(sdG.out))

\* three compressed files of a solid archive: Next three times without a Read,
\* then the third file read to its end
Wit_C20 ==
    /\ sd.arcSolid /\ sd.cur = 3 /\ \A k \in 1..3 : sd.files[k].comp /\ sd.files[k].len = 2
    /\ sdG.total = 2 /\ Len(sdG.out) = 2 /\ sdRet.op = "Read"

----------------------------------------------------------------------------
(* Properties of the length-limited reader *)

\* C21: the limited reader delivers at most UnPackedSize bytes; when the inner
\* stream reports io.EOF while fewer have been delivered the call returns
\* "short file", and io.EOF is returned only when exactly UnPackedSize bytes
\* have been delivered.
Thm_C21 ==
    /\ lm.got <= lm.size /\ lm.n = lm.size - lm.got
    /\ (lmRet.inner = "EOF" /\ lm.got < lm.size) => lmRet.err = "ErrShortFile"
    /\ lmRet.err = "EOF" => lm.got = lm.size

\* the inner stream ended after 2 of 3 bytes
Wit_C21 ==
    /\ lm.size = 3 /\ lm.got = 2 /\ lmRet.op = "Read" /\ lmRet.inner = "EOF"
    /\ lmRet.err = "ErrShortFile"

----------------------------------------------------------------------------
(* Properties of queueFilter *)

\* C22: the queue never holds more than maxQueuedFilters filters; queueFilter
\* called with that many queued fails with "too many filters" and leaves the
\* queue as it was, and with fewer queued a successful call adds one filter.
Thm_C22 ==
    /\ Len(qf.filters) <= maxQueuedFilters
    /\ (qfRet.op = "queueFilter" /\ qfRet.len = maxQueuedFilters) =>
          qfRet.err = "errTooManyFilters" /\ qfRet.same
    /\ (qfRet.op = "queueFilter" /\ qfRet.len < maxQueuedFilters) =>
          /\ qfRet.err # "errTooManyFilters"
          /\ qfRet.err = "nil" => Len(qf.filters) = qfRet.len + 1

\* a filter was added as number maxQueuedFilters and the next was refused
Wit_C22 ==
    /\ qfRet.op = "queueFilter" /\ qfRet.len = maxQueuedFilters /\ qfRet.enq = 2
    /\ qfRet.err = "errTooManyFilters" /\ Len(qf.filters) = maxQueuedFilters

\* C23: with room in the queue, queueFilter of a filter whose offset is
\* smaller than the offset of the last queued filter (the sum of the stored
\* offsets) fails with "invalid filter" and adds nothing; with an offset greater
\* than or equal to it the filter is added, holding its distance from the last.
Thm_C23 ==
    (qfRet.op = "queueFilter" /\ qfRet.len < maxQueuedFilters) =>
        /\ (qfRet.len > 0 /\ qfRet.off < qfRet.sum) =>
              qfRet.err = "errInvalidFilter" /\ qfRet.same
        /\ (qfRet.len = 0 \/ qfRet.off >= qfRet.sum) =>
              /\ qfRet.err = "nil" /\ Len(qf.filters) = qfRet.len + 1
              /\ qf.filters[Len(qf.filters)].offset =
                    qfRet.off - (IF qfRet.len = 0 THEN 0 ELSE qfRet.sum)

\* a filter at offset 3 was refused behind filters at offsets 3 and 4
Wit_C23 ==
    /\ qfRet.op = "queueFilter" /\ qfRet.len = 2 /\ qfRet.sum = 4 /\ qfRet.off = 3
    /\ qfRet.err = "errInvalidFilter" /\ Len(qf.filters) = 2

----------------------------------------------------------------------------
(* Properties of copyBytes and bytes on the contents of the window *)

\* the bytes handed out so far followed by the bytes waiting in the window
CbHeld == cb.out \o BufSlice(cb, cb.win.r, cb.win.w)

\* C30: the bytes handed out and waiting in the window are the decoded stream
\* as unbounded copies produce it, less the last w.l bytes of the copy that
\* stopped at the end of the window; bytes() resumes that copy, so that once
\* w.l is 0 every byte of the copy has been appended.
Thm_C30 ==
    /\ Len(CbHeld) + cb.win.l = Len(cb.exp)
    /\ CbHeld = SubSeq(cb.exp, 1, Len(CbHeld))

\* a copy stopped at the end of the window, drains of bytes() have resumed and
\* finished it and handed out every byte
Wit_C30 ==
    /\ cb.pend /\ cb.win.l = 0 /\ cb.out = cb.exp /\ Len(cb.exp) >= 5
    /\ cb.win.w > 0 /\ cb.win.w < 5

----------------------------------------------------------------------------
(* Properties of the bit reader with a bit limit *)

\* the bits of the inner reader from bit a on, n of them
LbSrcBits(a, n) == [i \in 1..n |-> LbSrcBit(a + i - 1)]

\* C36 as stated: no more than the limit is read, and a readBits called when the
\* limit is reached (r.l = 0) returns io.EOF, whatever bits are in the cache.
Cex_C36 ==
    /\ lb.got <= lb.limit
    /\ (lbRet.op = "readBits" /\ lbRet.l0 = 0) => lbRet.err = "EOF"

\* C36: since the last setLimit(L) the bits readBits returned, the bits in the
\* cache and the bits still allowed add up to L, the bits returned are the first
\* bits of the inner reader from the byte the reader stood at, and the reader
\* has taken at most L bits rounded up to whole bytes; a readBits(n) called when
\* the limit is reached returns io.EOF if and only if fewer than n bits are in
\* the cache, and then the cache keeps its bits.
Thm_C36 ==
    /\ lb.l >= 0 /\ lb.n >= 0
    /\ lb.got + lb.n + lb.l = lb.limit
    /\ 8 * (LbTaken(lb) - lb.start) <= lb.limit + 7
    /\ (lbRet.op = "readBits" /\ lbRet.err = "nil") =>
          /\ Len(lbRet.val) = lbRet.ask
          /\ lbRet.val = LbSrcBits(8 * lb.start + lb.got - lbRet.ask, lbRet.ask)
    /\ (lbRet.op = "readBits" /\ lbRet.l0 = 0) =>
          /\ lbRet.err = "EOF" <=> lbRet.ask > lbRet.n0
          /\ lbRet.err = "EOF" => lb.n = lbRet.n0
    /\ (lbRet.op = "readBits" /\ lbRet.err = "EOF") => lb.got + lbRet.ask > lb.limit

\* with a limit of 12 bits the reader took two bytes, returned 7 bits and then
\* answered a readBits(7) with io.EOF while 5 bits were in the cache
Wit_C36 ==
    /\ lb.limit = 12 /\ lb.got = 7 /\ lb.n = 5 /\ lb.l = 0
    /\ LbTaken(lb) - lb.start = 2
    /\ lbRet.op = "readBits" /\ lbRet.ask = 7 /\ lbRet.err = "EOF"

====
